---- MODULE Spec2Model ----
(***************************************************************************)
(* A model of the bugzilla client library: the entity classes of           *)
(* bugzilla/objects.py, the decode functions of bugzilla/__init__.py and   *)
(* the lazy-loading proxy of bugzilla/proxy.py.                            *)
(*                                                                         *)
(* Python values are pairs <<tag, payload>>; the tag is the Python type.    *)
(* A str is a sequence of one-character strings, bytes                     *)
(* is a sequence of integers 0..255, a list is a sequence of values, an    *)
(* entity (a dict subclass) is its class name and its key/value function.  *)
(***************************************************************************)
EXTENDS Integers, Sequences, FiniteSets, TLC

VARIABLES
    proxy,       \* the LazyUser object: [class, fields]
    pc,          \* per thread: where it is inside LazyBugzillaObject.__getitem__
    rd,          \* per thread: the read in progress or last finished
    loaderCalls, \* number of calls of loader.get_user so far
    loaderFails, \* number of those that raised or returned a wrong kind
    reads,       \* number of reads started
    loaded,      \* the object the proxy was last updated from, None before
    entity,      \* the entity last built by a constructor or a decode function
    input,       \* how it was built: the class and the attribute mapping or payload
    hist,        \* what the callers did to it since: the data assigned, the calls made
    heap,        \* mutable list and dict cells, by address
    fieldsOf,    \* per entity built on the heap: its kind and fields
    expected,    \* per entity built on the heap: the values its fields should show
    appends      \* number of in-place mutations done

vars == <<proxy, pc, rd, loaderCalls, loaderFails, reads, loaded, entity, input, hist,
          heap, fieldsOf, expected, appends>>

lazyVars == <<proxy, pc, rd, loaderCalls, loaderFails, reads, loaded>>
valueVars == <<entity, input, hist>>
heapVars == <<heap, fieldsOf, expected, appends>>

-----------------------------------------------------------------------------
(* Python values *)

None == <<"none", 0>>
Bool(b) == <<"bool", b>>
Num(n) == <<"int", n>>
Str(s) == <<"str", s>>
Bytes(s) == <<"bytes", s>>
List(s) == <<"list", s>>
Dict(f) == <<"dict", f>>
DateTime(t) == <<"datetime", t>>
Obj(c, f) == <<"obj", [class |-> c, fields |-> f]>>
Ref(a) == <<"ref", a>>
Raised(e) == <<"raise", e>>

True == Bool(TRUE)
False == Bool(FALSE)
Empty == Str(<<>>)
EmptyList == List(<<>>)
EmptyMap == [x \in {} |-> None]

IsRaised(x) == x[1] = "raise"

\* bool(x) of Python
Truthy(x) ==
    CASE x[1] = "none" -> FALSE
      [] x[1] = "bool" -> x[2]
      [] x[1] = "int" -> x[2] # 0
      [] x[1] \in {"str", "bytes", "list"} -> Len(x[2]) > 0
      [] x[1] = "dict" -> DOMAIN x[2] # {}
      [] x[1] = "obj" -> DOMAIN x[2].fields # {}
      [] OTHER -> TRUE

-----------------------------------------------------------------------------
(* bugzilla/objects.py: the ATTRIBUTES schema of every entity class *)

Kinds == {"Bug", "Product", "Component", "FlagType", "Version", "Milestone",
          "Classification", "Attachment", "AttachmentFlag", "History", "Change",
          "UpdateResult", "Comment", "BugField", "BugFieldValue", "User", "Group",
          "Search"}

BugATTRIBUTES ==
    [x \in {"alias", "blocks", "cc_detail", "depends_on", "flags", "groups",
            "keywords", "see_also"} |-> EmptyList]
    @@ [x \in {"assigned_to_detail", "creation_time", "creator_detail", "deadline",
               "dupe_of", "last_change_time", "qa_contact_detail"} |-> None]
    @@ [x \in {"classification", "component", "op_sys", "platform", "priority",
               "product", "resolution", "severity", "status", "summary",
               "target_milestone", "url", "version", "whiteboard"} |-> Empty]
    @@ [x \in {"is_cc_accessible", "is_confirmed", "is_open",
               "is_creator_accessible"} |-> False]
    @@ ("id" :> Num(-1))

ProductATTRIBUTES ==
    ("id" :> Num(-1))
    @@ [x \in {"name", "description", "default_milestone", "classification"} |-> Empty]
    @@ [x \in {"is_active", "has_unconfirmed"} |-> False]
    @@ [x \in {"components", "versions", "milestones"} |-> EmptyList]

ComponentATTRIBUTES ==
    ("id" :> Num(-1))
    @@ [x \in {"name", "description", "default_assigned_to",
               "default_qa_contact"} |-> Empty]
    @@ ("sort_key" :> Num(0))
    @@ ("is_active" :> False)
    @@ ("flag_types" :> Dict([x \in {"bug", "attachment"} |-> EmptyList]))

FlagTypeATTRIBUTES ==
    ("id" :> Num(-1))
    @@ [x \in {"name", "description", "type"} |-> Empty]
    @@ [x \in {"cc_list", "values"} |-> EmptyList]
    @@ ("sort_key" :> Num(0))
    @@ [x \in {"is_active", "is_requestable", "is_multiplicable"} |-> True]
    @@ ("is_requesteeble" :> False)
    @@ [x \in {"grant_group", "request_group"} |-> None]

VersionATTRIBUTES ==
    [x \in {"name", "sort_key"} |-> Empty] @@ ("is_active" :> False)

MilestoneATTRIBUTES ==
    [x \in {"name", "sort_key"} |-> Empty] @@ ("is_active" :> False)

ClassificationATTRIBUTES ==
    ("id" :> Num(-1))
    @@ [x \in {"name", "description"} |-> Empty]
    @@ ("sort_key" :> Num(0))
    @@ ("products" :> EmptyList)

AttachmentATTRIBUTES ==
    ("data" :> Bytes(<<>>))
    @@ [x \in {"creation_time", "last_change_time", "creator"} |-> None]
    @@ [x \in {"id", "bug_id"} |-> Num(-1)]
    @@ [x \in {"file_name", "summary", "content_type"} |-> Empty]
    @@ [x \in {"is_private", "is_obsolete", "is_patch"} |-> False]
    @@ ("flags" :> EmptyList)

AttachmentFlagATTRIBUTES ==
    [x \in {"id", "type_id"} |-> Num(-1)]
    @@ [x \in {"name", "status"} |-> Empty]
    @@ [x \in {"creation_date", "modification_date", "setter", "requestee"} |-> None]

HistoryATTRIBUTES ==
    ("when" :> None) @@ ("who" :> Empty) @@ ("changes" :> EmptyList)

ChangeATTRIBUTES ==
    [x \in {"added", "removed", "field_name"} |-> Empty]

UpdateResultATTRIBUTES ==
    ("changes" :> EmptyList) @@ ("id" :> Num(-1)) @@ ("last_change_time" :> None)

CommentATTRIBUTES ==
    [x \in {"id", "bug_id", "count"} |-> Num(-1)]
    @@ [x \in {"attachment_id", "time", "creation_time"} |-> None]
    @@ [x \in {"text", "creator"} |-> Empty]
    @@ [x \in {"is_private", "is_markdown"} |-> False]
    @@ ("tags" :> EmptyList)

BugFieldATTRIBUTES ==
    ("id" :> Num(-1))
    @@ ("type" :> Num(0))
    @@ [x \in {"is_custom", "is_mandatory", "is_on_bug_entry"} |-> False]
    @@ [x \in {"name", "display_name"} |-> Empty]
    @@ [x \in {"visibility_field", "value_field"} |-> None]
    @@ [x \in {"visibility_values", "values"} |-> EmptyList]

BugFieldValueATTRIBUTES ==
    [x \in {"name", "description"} |-> Empty]
    @@ ("sort_key" :> Num(0))
    @@ [x \in {"visibility_values", "can_change_to"} |-> EmptyList]
    @@ [x \in {"is_active", "is_open"} |-> False]

UserATTRIBUTES ==
    ("id" :> Num(-1))
    @@ [x \in {"real_name", "email", "name", "login_denied_text"} |-> Empty]
    @@ ("can_login" :> True)
    @@ ("email_enabled" :> False)
    @@ [x \in {"groups", "saved_searches", "saved_reports"} |-> EmptyList]

GroupATTRIBUTES ==
    ("id" :> Num(-1))
    @@ [x \in {"name", "description", "user_regexp"} |-> Empty]
    @@ [x \in {"is_bug_group", "is_active"} |-> False]
    @@ ("membership" :> EmptyList)

SearchATTRIBUTES ==
    ("id" :> Num(-1)) @@ [x \in {"name", "query"} |-> Empty]

ATTRIBUTES(kind) ==
    CASE kind = "Bug" -> BugATTRIBUTES
      [] kind = "Product" -> ProductATTRIBUTES
      [] kind = "Component" -> ComponentATTRIBUTES
      [] kind = "FlagType" -> FlagTypeATTRIBUTES
      [] kind = "Version" -> VersionATTRIBUTES
      [] kind = "Milestone" -> MilestoneATTRIBUTES
      [] kind = "Classification" -> ClassificationATTRIBUTES
      [] kind = "Attachment" -> AttachmentATTRIBUTES
      [] kind = "AttachmentFlag" -> AttachmentFlagATTRIBUTES
      [] kind = "History" -> HistoryATTRIBUTES
      [] kind = "Change" -> ChangeATTRIBUTES
      [] kind = "UpdateResult" -> UpdateResultATTRIBUTES
      [] kind = "Comment" -> CommentATTRIBUTES
      [] kind = "BugField" -> BugFieldATTRIBUTES
      [] kind = "BugFieldValue" -> BugFieldValueATTRIBUTES
      [] kind = "User" -> UserATTRIBUTES
      [] kind = "Group" -> GroupATTRIBUTES
      [] kind = "Search" -> SearchATTRIBUTES

set_default_attributes_mutOverwrite(fields, attributes) ==
    [x \in DOMAIN fields \cup DOMAIN attributes |->
        IF x \in DOMAIN attributes THEN attributes[x] ELSE fields[x]]

\* BugzillaObject.set_default_attributes on a dict whose items are `fields`:
\* setdefault keeps a key that is there and adds the (copied) default otherwise.
set_default_attributes(fields, attributes) ==
    [x \in DOMAIN fields \cup DOMAIN attributes |->
        IF x \in DOMAIN fields THEN fields[x] ELSE attributes[x]]

\* K.__init__(attributes): dict.__init__ copies the items, then the defaults.
New(kind, attributes) ==
    Obj(kind, set_default_attributes(attributes, ATTRIBUTES(kind)))

-----------------------------------------------------------------------------
(* bugzilla/util.py and base64: the codec primitives *)

DigitChars == <<"0", "1", "2", "3", "4", "5", "6", "7", "8", "9">>

IsDigit(c) == \E i \in 1..10 : DigitChars[i] = c

DigitVal(c) == (CHOOSE i \in 1..10 : DigitChars[i] = c) - 1

\* int(run) of a run of digits
RECURSIVE RunVal(_)
RunVal(run) ==
    IF run = <<>> THEN 0
    ELSE 10 * RunVal(SubSeq(run, 1, Len(run) - 1)) + DigitVal(run[Len(run)])

\* The number of leading digits of s.
Lead(s) ==
    CHOOSE n \in 0..Len(s) :
        /\ \A i \in 1..n : IsDigit(s[i])
        /\ n < Len(s) => ~IsDigit(s[n + 1])

\* The digit runs of s between the literal characters of a strptime format;
\* seps[i] is the set of characters the i-th literal matches (the match ignores
\* case).  What follows the last literal is the last run.
RECURSIVE Split(_, _)
Split(s, seps) ==
    IF seps = <<>>
    THEN [ok |-> \A i \in 1..Len(s) : IsDigit(s[i]), runs |-> <<s>>]
    ELSE LET n == Lead(s)
         IN IF n = 0 \/ n >= Len(s) \/ s[n + 1] \notin Head(seps)
            THEN [ok |-> FALSE, runs |-> <<>>]
            ELSE LET rest == Split(SubSeq(s, n + 2, Len(s)), Tail(seps))
                 IN [ok |-> rest.ok, runs |-> <<SubSeq(s, 1, n)>> \o rest.runs]

IsLeap(y) == (y % 4 = 0 /\ y % 100 # 0) \/ y % 400 = 0

DaysIn(y, m) ==
    IF m = 2 THEN (IF IsLeap(y) THEN 29 ELSE 28)
    ELSE IF m \in {4, 6, 9, 11} THEN 30 ELSE 31

\* The directives %Y %m %d %H %M %S: the digits each accepts.
InRange(run, maxlen, lo, hi) ==
    /\ Len(run) >= 1
    /\ Len(run) <= maxlen
    /\ RunVal(run) >= lo
    /\ RunVal(run) <= hi

\* datetime.strptime(string, "%Y-%m-%dT%H:%M:%SZ")
parse_bugzilla_datetime(string) ==
    IF string[1] # "str" THEN Raised("TypeError")
    ELSE LET sp == Split(string[2], <<{"-"}, {"-"}, {"T", "t"}, {":"}, {":"}, {"Z", "z"}>>)
             r == sp.runs
         IN IF /\ sp.ok
               /\ r[7] = <<>>
               /\ Len(r[1]) = 4
               /\ InRange(r[2], 2, 1, 12)
               /\ InRange(r[3], 2, 1, 31)
               /\ InRange(r[4], 2, 0, 23)
               /\ InRange(r[5], 2, 0, 59)
               /\ InRange(r[6], 2, 0, 59)
               /\ RunVal(r[1]) >= 1
               /\ RunVal(r[3]) <= DaysIn(RunVal(r[1]), RunVal(r[2]))
            THEN DateTime(<<RunVal(r[1]), RunVal(r[2]), RunVal(r[3]),
                            RunVal(r[4]), RunVal(r[5]), RunVal(r[6])>>)
            ELSE Raised("ValueError")

\* datetime.strptime(string, "%Y-%m-%d"): a datetime at midnight
parse_bugzilla_date(string) ==
    IF string[1] # "str" THEN Raised("TypeError")
    ELSE LET sp == Split(string[2], <<{"-"}, {"-"}>>)
             r == sp.runs
         IN IF /\ sp.ok
               /\ Len(r[1]) = 4
               /\ InRange(r[2], 2, 1, 12)
               /\ InRange(r[3], 2, 1, 31)
               /\ RunVal(r[1]) >= 1
               /\ RunVal(r[3]) <= DaysIn(RunVal(r[1]), RunVal(r[2]))
            THEN DateTime(<<RunVal(r[1]), RunVal(r[2]), RunVal(r[3]), 0, 0, 0>>)
            ELSE Raised("ValueError")

B64Chars ==
    <<"A", "B", "C", "D", "E", "F", "G", "H", "I", "J", "K", "L", "M", "N", "O", "P",
      "Q", "R", "S", "T", "U", "V", "W", "X", "Y", "Z", "a", "b", "c", "d", "e", "f",
      "g", "h", "i", "j", "k", "l", "m", "n", "o", "p", "q", "r", "s", "t", "u", "v",
      "w", "x", "y", "z", "0", "1", "2", "3", "4", "5", "6", "7", "8", "9", "+", "/">>

B64Val(c) == (CHOOSE i \in 1..64 : B64Chars[i] = c) - 1

\* The bytes of complete groups of four characters.
RECURSIVE B64Groups(_)
B64Groups(s) ==
    IF Len(s) < 4 THEN <<>>
    ELSE LET a == B64Val(s[1])
             b == B64Val(s[2])
             c == B64Val(s[3])
             d == B64Val(s[4])
         IN <<a * 4 + b \div 16, (b % 16) * 16 + c \div 4, (c % 4) * 64 + d>>
            \o B64Groups(SubSeq(s, 5, Len(s)))

\* base64.b64decode(string) for a text of alphabet characters followed by "="
\* padding: the characters in fours, the last group padded to four.
b64decode(string) ==
    IF string[1] \notin {"str", "bytes"} THEN Raised("TypeError")
    ELSE LET s == string[2]
             n == CHOOSE m \in 0..Len(s) :
                      /\ \A i \in 1..m : s[i] # "="
                      /\ m < Len(s) => s[m + 1] = "="
             pad == Len(s) - n
             full == SubSeq(s, 1, n - (n % 4))
             last == SubSeq(s, n - (n % 4) + 1, n)
         IN IF n % 4 = 1 \/ (n % 4 # 0 /\ pad < 4 - (n % 4))
            THEN Raised("binascii.Error")
            ELSE Bytes(B64Groups(full) \o
                    (IF n % 4 = 2
                     THEN <<B64Val(last[1]) * 4 + B64Val(last[2]) \div 16>>
                     ELSE IF n % 4 = 3
                     THEN <<B64Val(last[1]) * 4 + B64Val(last[2]) \div 16,
                            (B64Val(last[2]) % 16) * 16 + B64Val(last[3]) \div 4>>
                     ELSE <<>>))

-----------------------------------------------------------------------------
(* bugzilla/util.py and base64: the encoders *)

\* The decimal digits of n >= 0.
RECURSIVE Digits(_)
Digits(n) ==
    IF n < 10 THEN <<DigitChars[n + 1]>>
    ELSE Digits(n \div 10) \o <<DigitChars[(n % 10) + 1]>>

\* %m %d %H %M %S: two digits
Pad2(n) == IF n < 10 THEN <<"0">> \o Digits(n) ELSE Digits(n)

\* dt.strftime(format): %Y is the year as the C library prints it, its digits
\* with no padding; with time the format is "%Y-%m-%dT%H:%M:%SZ", else "%Y-%m-%d".
strftime_mutDayFirst(dt, time) ==
    IF dt[1] # "datetime" THEN Raised("AttributeError")
    ELSE LET t == dt[2]
         IN Str(Digits(t[1]) \o <<"-">> \o Pad2(t[3]) \o <<"-">> \o Pad2(t[2]) \o
                (IF time
                 THEN <<"T">> \o Pad2(t[4]) \o <<":">> \o Pad2(t[5]) \o <<":">>
                      \o Pad2(t[6]) \o <<"Z">>
                 ELSE <<>>))

strftime(dt, time) ==
    IF dt[1] # "datetime" THEN Raised("AttributeError")
    ELSE LET t == dt[2]
         IN Str(Digits(t[1]) \o <<"-">> \o Pad2(t[2]) \o <<"-">> \o Pad2(t[3]) \o
                (IF time
                 THEN <<"T">> \o Pad2(t[4]) \o <<":">> \o Pad2(t[5]) \o <<":">>
                      \o Pad2(t[6]) \o <<"Z">>
                 ELSE <<>>))

encode_bugzilla_datetime(dt) == IF dt = None THEN None ELSE strftime(dt, TRUE)

encode_bugzilla_date(dt) == IF dt = None THEN None ELSE strftime(dt, FALSE)

\* base64.b64encode(data).decode("ascii")
RECURSIVE B64Text(_)
B64Text(b) ==
    IF b = <<>> THEN <<>>
    ELSE IF Len(b) = 1
    THEN <<B64Chars[b[1] \div 4 + 1], B64Chars[(b[1] % 4) * 16 + 1], "=", "=">>
    ELSE IF Len(b) = 2
    THEN <<B64Chars[b[1] \div 4 + 1], B64Chars[(b[1] % 4) * 16 + b[2] \div 16 + 1],
           B64Chars[(b[2] % 16) * 4 + 1], "=">>
    ELSE <<B64Chars[b[1] \div 4 + 1], B64Chars[(b[1] % 4) * 16 + b[2] \div 16 + 1],
           B64Chars[(b[2] % 16) * 4 + b[3] \div 64 + 1], B64Chars[(b[3] % 64) + 1]>>
         \o B64Text(SubSeq(b, 4, Len(b)))

b64encode(data) ==
    IF data[1] # "bytes" THEN Raised("TypeError") ELSE Str(B64Text(data[2]))

-----------------------------------------------------------------------------
(* bugzilla/__init__.py: the decode functions *)

\* dict(x): the items of a dict or of an entity
Items(x) == IF x[1] = "obj" THEN x[2].fields ELSE x[2]

\* K(data) for a class K given as the function of _map
Construct(kind, data) ==
    IF data[1] \in {"dict", "obj"} THEN New(kind, Items(data)) ELSE Raised("TypeError")

\* The first exception of a sequence of results, else the list of them.
Collect(results) ==
    IF \E i \in 1..Len(results) : IsRaised(results[i])
    THEN results[CHOOSE i \in 1..Len(results) :
                    /\ IsRaised(results[i])
                    /\ \A j \in 1..(i - 1) : ~IsRaised(results[j])]
    ELSE List(results)

RECURSIVE Apply(_, _)

\* key in dct: a key of a dict; for a list, an element equal to the key, which
\* no list of dicts has.
Contains(dct, key) ==
    IF dct[1] = "list" THEN FALSE ELSE key \in DOMAIN dct[2]

\* Bugzilla._map: the function on the value of a key that is there, on every
\* element when the value is a list; nothing for a key that is not there.
\* An exception of an earlier step or of the function goes on.
_map(dct, key, func) ==
    IF IsRaised(dct) \/ ~Contains(dct, key) THEN dct
    ELSE LET old == dct[2][key]
             new == IF old[1] = "list"
                    THEN Collect([i \in 1..Len(old[2]) |-> Apply(func, old[2][i])])
                    ELSE Apply(func, old)
         IN IF IsRaised(new) THEN new ELSE Dict([dct[2] EXCEPT ![key] = new])

\* if "size" in data: del data["size"]
DropSize(data) ==
    IF IsRaised(data) THEN data
    ELSE Dict([x \in DOMAIN data[2] \ {"size"} |-> data[2][x]])

Build(kind, data) == IF IsRaised(data) THEN data ELSE Construct(kind, data)

_get_attachment_flag(data) ==
    Build("AttachmentFlag",
        _map(_map(data, "creation_date", "parse_bugzilla_datetime"),
             "modification_date", "parse_bugzilla_datetime"))

_get_attachment(data) ==
    Build("Attachment",
        DropSize(
        _map(_map(_map(_map(_map(_map(_map(data,
            "creation_time", "parse_bugzilla_datetime"),
            "last_change_time", "parse_bugzilla_datetime"),
            "data", "b64decode"),
            "is_private", "bool"),
            "is_obsolete", "bool"),
            "is_patch", "bool"),
            "flags", "_get_attachment_flag")))

_get_bug(data) ==
    Build("Bug",
        _map(_map(_map(_map(_map(_map(_map(data,
            "creation_time", "parse_bugzilla_datetime"),
            "flags", "_get_attachment_flag"),
            "is_cc_accessible", "bool"),
            "is_confirmed", "bool"),
            "is_open", "bool"),
            "is_creator_accessible", "bool"),
            "last_change_time", "parse_bugzilla_datetime"))

_get_history(data) ==
    Build("History", _map(_map(data, "when", "parse_bugzilla_datetime"), "changes", "Change"))

_get_flag_type(data) == Build("FlagType", data)

_get_version(data) == Build("Version", data)

_get_milestone(data) == Build("Milestone", data)

_get_classification(data) == Build("Classification", data)

\* _map on data["flag_types"], a dict inside the payload
_get_component(data) ==
    IF IsRaised(data) \/ "flag_types" \notin DOMAIN data[2] THEN Build("Component", data)
    ELSE LET ft == _map(_map(data[2]["flag_types"], "bug", "_get_flag_type"),
                        "attachment", "_get_flag_type")
         IN IF IsRaised(ft) THEN ft
            ELSE Build("Component", Dict([data[2] EXCEPT !["flag_types"] = ft]))

_get_product(data) ==
    Build("Product",
        _map(_map(_map(data, "components", "_get_component"),
             "versions", "_get_version"),
             "milestones", "_get_milestone"))

_get_update_result(data) ==
    Build("UpdateResult", _map(data, "last_change_time", "parse_bugzilla_datetime"))

_get_comment(data) ==
    Build("Comment",
        _map(_map(data, "time", "parse_bugzilla_datetime"),
             "creation_time", "parse_bugzilla_datetime"))

_get_field(data) == Build("BugField", _map(data, "values", "BugFieldValue"))

_get_user(data) ==
    Build("User",
        _map(_map(_map(data, "groups", "_get_group"),
             "saved_searches", "Search"),
             "saved_reports", "Search"))

_get_group(data) == Build("Group", _map(data, "membership", "_get_user"))

Apply(func, x) ==
    CASE func = "parse_bugzilla_datetime" -> parse_bugzilla_datetime(x)
      [] func = "b64decode" -> b64decode(x)
      [] func = "bool" -> Bool(Truthy(x))
      [] func = "Change" -> Construct("Change", x)
      [] func = "BugFieldValue" -> Construct("BugFieldValue", x)
      [] func = "Search" -> Construct("Search", x)
      [] func = "_get_attachment_flag" -> _get_attachment_flag(x)
      [] func = "_get_attachment" -> _get_attachment(x)
      [] func = "_get_bug" -> _get_bug(x)
      [] func = "_get_history" -> _get_history(x)
      [] func = "_get_flag_type" -> _get_flag_type(x)
      [] func = "_get_version" -> _get_version(x)
      [] func = "_get_milestone" -> _get_milestone(x)
      [] func = "_get_classification" -> _get_classification(x)
      [] func = "_get_component" -> _get_component(x)
      [] func = "_get_product" -> _get_product(x)
      [] func = "_get_update_result" -> _get_update_result(x)
      [] func = "_get_comment" -> _get_comment(x)
      [] func = "_get_field" -> _get_field(x)
      [] func = "_get_user" -> _get_user(x)
      [] func = "_get_group" -> _get_group(x)

\* The decode function of a kind.
Decoder(kind) ==
    CASE kind = "Attachment" -> "_get_attachment"
      [] kind = "AttachmentFlag" -> "_get_attachment_flag"
      [] kind = "Bug" -> "_get_bug"
      [] kind = "History" -> "_get_history"
      [] kind = "Product" -> "_get_product"
      [] kind = "Component" -> "_get_component"
      [] kind = "FlagType" -> "_get_flag_type"
      [] kind = "Version" -> "_get_version"
      [] kind = "Milestone" -> "_get_milestone"
      [] kind = "Classification" -> "_get_classification"
      [] kind = "UpdateResult" -> "_get_update_result"
      [] kind = "Comment" -> "_get_comment"
      [] kind = "BugField" -> "_get_field"
      [] kind = "User" -> "_get_user"
      [] kind = "Group" -> "_get_group"

DecodedKinds == Kinds \ {"Change", "BugFieldValue", "Search"}

-----------------------------------------------------------------------------
(* bugzilla/objects.py: reading and assigning an attribute *)

\* Attachment.__getitem__, Bug.__getitem__, else dict.__getitem__
getitem_mutStored(o, attr) ==
    IF attr \in DOMAIN o[2].fields THEN o[2].fields[attr] ELSE Raised("KeyError")

getitem(o, attr) ==
    LET f == o[2].fields
        name(detail) ==
            IF detail = None THEN None
            ELSE IF detail[1] \in {"dict", "obj"} /\ "name" \in DOMAIN Items(detail)
            THEN Items(detail)["name"]
            ELSE Raised("KeyError")
    IN CASE o[2].class = "Attachment" /\ attr = "size" ->
                IF "data" \notin DOMAIN f THEN Raised("KeyError")
                ELSE IF f["data"][1] \in {"bytes", "str", "list"}
                THEN Num(Len(f["data"][2]))
                ELSE Raised("TypeError")
         [] o[2].class = "Bug" /\ attr \in {"assigned_to", "creator", "qa_contact"} ->
                LET d == IF attr = "assigned_to" THEN "assigned_to_detail"
                         ELSE IF attr = "creator" THEN "creator_detail"
                         ELSE "qa_contact_detail"
                IN IF d \in DOMAIN f THEN name(f[d]) ELSE Raised("KeyError")
         [] o[2].class = "Bug" /\ attr = "cc" ->
                IF "cc_detail" \notin DOMAIN f THEN Raised("KeyError")
                ELSE IF f["cc_detail"][1] # "list" THEN Raised("TypeError")
                ELSE Collect([i \in 1..Len(f["cc_detail"][2]) |-> name(f["cc_detail"][2][i])])
         [] OTHER ->
                IF attr \in DOMAIN f THEN f[attr] ELSE Raised("KeyError")

\* Attachment.__setitem__, Bug.__setitem__, else dict.__setitem__: the object
\* after the assignment, or the exception.
setitem_mutStore(o, attr, value) ==
    Obj(o[2].class,
        [x \in DOMAIN o[2].fields \cup {attr} |->
            IF x = attr THEN value ELSE o[2].fields[x]])

setitem(o, attr, value) ==
    IF \/ o[2].class = "Attachment" /\ attr = "size"
       \/ o[2].class = "Bug" /\ attr \in {"assigned_to", "cc", "creator", "qa_contact"}
    THEN Raised("AttributeError")
    ELSE Obj(o[2].class,
             [x \in DOMAIN o[2].fields \cup {attr} |->
                 IF x = attr THEN value ELSE o[2].fields[x]])

-----------------------------------------------------------------------------
(* bugzilla/proxy.py: LazyBugzillaObject and LazyUser *)

MaxReads == 3
NThreads == 2

Seed == Str(<<"a">>)
Mail == Str(<<"m">>)
Loader == <<"loader", "bugzilla">>
Class(c) == <<"class", c>>

\* The keys the callers read: the seed, a User field the proxy lacks, a key
\* that no User has, and a bookkeeping field of the proxy.
ReadKeys == {"name", "email", "nope", "loader"}

\* What loader.get_user(name) can do: raise, or return some object.
LoaderOutcomes ==
    {Raised("LoaderError"), None, New("Bug", EmptyMap),
     New("User", ("name" :> Seed) @@ ("email" :> Mail)),
     New("User", ("name" :> Str(<<"b">>)) @@ ("id" :> Num(7)))}

\* LazyUser.__init__ / LazyBugzillaObject.__init__: every attribute assignment
\* is a key of the dict (BugzillaObject.__setattr__).
LazyUserInit(loader, name) ==
    [class |-> "LazyUser",
     fields |-> ("name" :> name) @@ ("loader" :> loader)
                @@ ("real_class" :> Class("User"))
                @@ ("load_on_missing_key" :> True)]

\* The methods a class defines besides those of dict and BugzillaObject.
Methods(class) ==
    IF class = "LazyUser"
    THEN {"get_load", "set_load", "get_loader", "set_loader", "__getitem__", "load",
          "_clean", "_load_object", "triggers_loading"}
    ELSE {}

\* dict.__getitem__
dict_getitem(o, key) ==
    IF key \in DOMAIN o.fields THEN o.fields[key] ELSE Raised("KeyError")

\* BugzillaObject.__getattr__: reached when the class has no such attribute.
getattr(o, attr) == dict_getitem(o, attr)

triggers_loading(attr) == TRUE

\* The condition of LazyBugzillaObject.__getitem__.
triggers_mutAnyKey(o, key) ==
    /\ Truthy(getattr(o, "load_on_missing_key"))
    /\ triggers_loading(key)

triggers_mutAlways(o, key) ==
    /\ key \notin DOMAIN o.fields
    /\ triggers_loading(key)

triggers(o, key) ==
    /\ key \notin DOMAIN o.fields
    /\ Truthy(getattr(o, "load_on_missing_key"))
    /\ triggers_loading(key)

\* isinstance(obj, self.real_class) in load
isinstance_mutAny(obj, cls) == obj[1] = "obj"

isinstance(obj, cls) ==
    /\ obj[1] = "obj"
    /\ cls[1] = "class"
    /\ obj[2].class = cls[2]

\* dict.update
update(fields, other) ==
    [x \in DOMAIN fields \cup DOMAIN other |->
        IF x \in DOMAIN other THEN other[x] ELSE fields[x]]

\* del self[key] for the three bookkeeping keys
Bookkeeping == {"loader", "real_class", "load_on_missing_key"}

_clean(fields) == [x \in DOMAIN fields \ Bookkeeping |-> fields[x]]

Unset == <<"unset", 0>>

\* What the model remembers of a read: the key, the proxy when the read started
\* (before) and ended (after), whether the class was a lazy one, the key absent
\* and loading on at the start, the loader calls made until then, what the
\* loader answered (obj) and what the read returned or raised (out).
NoInput == [how |-> "", kind |-> "", attrs |-> Dict(EmptyMap)]
NoHist == [data |-> <<>>, steps |-> 0, out |-> Unset]

NoRead == [key |-> "", lazy |-> FALSE, absent |-> FALSE, enabled |-> FALSE,
           triggered |-> FALSE, before |-> LazyUserInit(Loader, Seed),
           after |-> LazyUserInit(Loader, Seed),
           calls |-> 0, obj |-> Unset, out |-> Unset, done |-> FALSE]

Threads == DOMAIN pc

Finish(t, out, after) ==
    /\ pc' = [pc EXCEPT ![t] = "idle"]
    /\ rd' = [rd EXCEPT ![t].out = out, ![t].done = TRUE, ![t].after = after]

\* obj[key]: line 41-47 on a LazyUser, dict.__getitem__ on any other class.
\* A caller starts a read.
GetItem(t, key) ==
    /\ pc[t] = "idle"
    /\ reads < MaxReads
    /\ reads' = reads + 1
    /\ LET lazy == "__getitem__" \in Methods(proxy.class)
           start == [NoRead EXCEPT !.key = key, !.lazy = lazy,
                        !.absent = key \notin DOMAIN proxy.fields,
                        !.enabled = Truthy(getattr(proxy, "load_on_missing_key")),
                        !.before = proxy, !.after = proxy, !.calls = loaderCalls]
       IN IF lazy /\ triggers(proxy, key)
          THEN /\ pc' = [pc EXCEPT ![t] = "load"]
               /\ rd' = [rd EXCEPT ![t] = [start EXCEPT !.triggered = TRUE]]
          ELSE /\ pc' = pc
               /\ rd' = [rd EXCEPT ![t] = [start EXCEPT !.out = dict_getitem(proxy, key),
                                                         !.done = TRUE]]
    /\ UNCHANGED <<proxy, loaderCalls, loaderFails, loaded, valueVars, heapVars>>

\* line 43, 50 and 75: self.load(), self._load_object(), self.get_loader() are
\* looked up on the object's class, then get_user(self.name) is entered.
CallLoader(t) ==
    /\ pc[t] = "load"
    /\ IF {"load", "_load_object", "get_loader"} \subseteq Methods(proxy.class)
       THEN /\ loaderCalls' = loaderCalls + 1
            /\ pc' = [pc EXCEPT ![t] = "loading"]
            /\ rd' = rd
       ELSE /\ Finish(t, Raised("KeyError"), proxy)
            /\ loaderCalls' = loaderCalls
    /\ UNCHANGED <<proxy, loaderFails, reads, loaded, valueVars, heapVars>>

\* line 50-52: get_user returns or raises; the kind of the object is checked.
LoaderReturn(t, o) ==
    /\ pc[t] = "loading"
    /\ IF IsRaised(o)
       THEN /\ pc' = [pc EXCEPT ![t] = "idle"]
            /\ rd' = [rd EXCEPT ![t].out = o, ![t].done = TRUE, ![t].obj = o,
                                 ![t].after = proxy]
            /\ loaderFails' = loaderFails + 1
       ELSE IF IsRaised(getattr(proxy, "real_class"))
       THEN /\ pc' = [pc EXCEPT ![t] = "idle"]
            /\ rd' = [rd EXCEPT ![t].out = Raised("KeyError"), ![t].done = TRUE,
                                 ![t].obj = o, ![t].after = proxy]
            /\ loaderFails' = loaderFails
       ELSE IF ~isinstance(o, getattr(proxy, "real_class"))
       THEN /\ pc' = [pc EXCEPT ![t] = "idle"]
            /\ rd' = [rd EXCEPT ![t].out = Raised("ValueError"), ![t].done = TRUE,
                                 ![t].obj = o, ![t].after = proxy]
            /\ loaderFails' = loaderFails + 1
       ELSE /\ pc' = [pc EXCEPT ![t] = "update"]
            /\ rd' = [rd EXCEPT ![t].obj = o]
            /\ loaderFails' = loaderFails
    /\ UNCHANGED <<proxy, loaderCalls, reads, loaded, valueVars, heapVars>>

\* line 54: self.update(obj)
Update(t) ==
    /\ pc[t] = "update"
    /\ proxy' = [proxy EXCEPT !.fields = update(proxy.fields, rd[t].obj[2].fields)]
    /\ loaded' = rd[t].obj
    /\ pc' = [pc EXCEPT ![t] = "setclass"]
    /\ UNCHANGED <<rd, loaderCalls, loaderFails, reads, valueVars, heapVars>>

\* line 55: object.__setattr__(self, "__class__", type(obj))
SetClass(t) ==
    /\ pc[t] = "setclass"
    /\ proxy' = [proxy EXCEPT !.class = rd[t].obj[2].class]
    /\ pc' = [pc EXCEPT ![t] = "clean"]
    /\ UNCHANGED <<rd, loaderCalls, loaderFails, reads, loaded, valueVars, heapVars>>

\* line 57: self._clean() is looked up on what is now the object's class; a class
\* without it sends the lookup to __getattr__, which raises KeyError.  With it,
\* line 59-62 delete the bookkeeping keys and line 45 reads the key again.
Clean(t) ==
    /\ pc[t] = "clean"
    /\ IF "_clean" \in Methods(proxy.class)
       THEN /\ proxy' = [proxy EXCEPT !.fields = _clean(proxy.fields)]
            /\ Finish(t, dict_getitem(proxy', rd[t].key), proxy')
       ELSE /\ proxy' = proxy
            /\ Finish(t, Raised("KeyError"), proxy)
    /\ UNCHANGED <<loaderCalls, loaderFails, reads, loaded, valueVars, heapVars>>

\* line 32-33: a caller that is not inside a read calls set_load(load), a method
\* of the lazy classes only.
SetLoad(t, b) ==
    /\ pc[t] = "idle"
    /\ "set_load" \in Methods(proxy.class)
    /\ proxy.fields["load_on_missing_key"] # Bool(b)
    /\ proxy' = [proxy EXCEPT !.fields["load_on_missing_key"] = Bool(b)]
    /\ UNCHANGED <<pc, rd, loaderCalls, loaderFails, reads, loaded, valueVars, heapVars>>

LazyNext ==
    \/ \E t \in Threads, key \in ReadKeys : GetItem(t, key)
    \/ \E t \in Threads : CallLoader(t)
    \/ \E t \in Threads, o \in LoaderOutcomes : LoaderReturn(t, o)
    \/ \E t \in Threads : Update(t)
    \/ \E t \in Threads : SetClass(t)
    \/ \E t \in Threads : Clean(t)
    \/ \E t \in Threads, b \in BOOLEAN : SetLoad(t, b)

\* One caller at a time.
InitLazy ==
    /\ proxy = LazyUserInit(Loader, Seed)
    /\ pc = [t \in 1..1 |-> "idle"]
    /\ rd = [t \in 1..1 |-> NoRead]
    /\ loaderCalls = 0
    /\ loaderFails = 0
    /\ reads = 0
    /\ loaded = None
    /\ entity = None
    /\ input = NoInput
    /\ hist = NoHist
    /\ heap = EmptyMap
    /\ fieldsOf = <<>>
    /\ expected = <<>>
    /\ appends = 0

SpecLazy == InitLazy /\ [][LazyNext]_vars

\* Several threads reading the same proxy.
InitLazyThreads ==
    /\ proxy = LazyUserInit(Loader, Seed)
    /\ pc = [t \in 1..NThreads |-> "idle"]
    /\ rd = [t \in 1..NThreads |-> NoRead]
    /\ loaderCalls = 0
    /\ loaderFails = 0
    /\ reads = 0
    /\ loaded = None
    /\ entity = None
    /\ input = NoInput
    /\ hist = NoHist
    /\ heap = EmptyMap
    /\ fieldsOf = <<>>
    /\ expected = <<>>
    /\ appends = 0

SpecLazyThreads == InitLazyThreads /\ [][LazyNext]_vars

-----------------------------------------------------------------------------
(* Constructing entities: K(attributes) for every class K *)

MaxGiven == 2

X == Str(<<"x">>)

\* The values a caller gives: an explicit None and a string.
GivenValues == {None, X}

\* The keys a caller gives: those of the schema and a custom field.
GivenKeys(kind) == DOMAIN ATTRIBUTES(kind) \cup {"cf_x"}

\* The attribute mappings with at most n keys.
RECURSIVE NewMaps(_, _)
NewMaps(kind, n) ==
    IF n = 0 THEN {EmptyMap}
    ELSE LET P == NewMaps(kind, n - 1)
         IN P \cup {m @@ (key :> v) : m \in P, key \in GivenKeys(kind), v \in GivenValues}

InitNew ==
    /\ \E kind \in Kinds :
          input \in {[how |-> "new", kind |-> kind, attrs |-> Dict(m)] :
                        m \in NewMaps(kind, MaxGiven)}
    /\ entity = None
    /\ hist = NoHist
    /\ proxy = LazyUserInit(Loader, Seed)
    /\ pc = <<>>
    /\ rd = <<>>
    /\ loaderCalls = 0
    /\ loaderFails = 0
    /\ reads = 0
    /\ loaded = None
    /\ heap = EmptyMap
    /\ fieldsOf = <<>>
    /\ expected = <<>>
    /\ appends = 0

\* K(attributes)
Construction ==
    /\ entity = None
    /\ input.how = "new"
    /\ entity' = Construct(input.kind, input.attrs)
    /\ UNCHANGED <<input, hist, lazyVars, heapVars>>

SpecNew == InitNew /\ [][Construction]_vars

-----------------------------------------------------------------------------
(* Decoding payloads: the _get_* functions *)

MaxFields == 2

TS == Str(<<"2", "0", "2", "0", "-", "0", "1", "-", "0", "2", "T",
            "0", "3", ":", "0", "4", ":", "0", "5", "Z">>)
DS == Str(<<"2", "0", "2", "0", "-", "0", "1", "-", "0", "2">>)

\* Some bytes and their base64 text.
Blobs == {<<<<>>, <<>>>>,
          <<<<97>>, <<"Y", "Q", "=", "=">>>>,
          <<<<97, 98>>, <<"Y", "W", "I", "=">>>>,
          <<<<97, 98, 99>>, <<"Y", "W", "J", "j">>>>}

\* The semantic type of a field: what the wire carries for it.
TimestampFields(kind) ==
    CASE kind \in {"Attachment", "Bug"} -> {"creation_time", "last_change_time"}
      [] kind = "AttachmentFlag" -> {"creation_date", "modification_date"}
      [] kind = "History" -> {"when"}
      [] kind = "UpdateResult" -> {"last_change_time"}
      [] kind = "Comment" -> {"time", "creation_time"}
      [] OTHER -> {}

DateFields(kind) == IF kind = "Bug" THEN {"deadline"} ELSE {}

BlobFields(kind) == IF kind = "Attachment" THEN {"data"} ELSE {}

\* The boolean fields that arrive as 0/1; the others arrive as JSON booleans.
IntBoolFields(kind) ==
    CASE kind = "Attachment" -> {"is_private", "is_obsolete", "is_patch"}
      [] kind = "Bug" -> {"is_cc_accessible", "is_confirmed", "is_open",
                          "is_creator_accessible"}
      [] OTHER -> {}

\* The fields that hold a list of nested objects, with their decode function.
NestedFields(kind) ==
    CASE kind \in {"Attachment", "Bug"} -> ("flags" :> "_get_attachment_flag")
      [] kind = "History" -> ("changes" :> "Change")
      [] kind = "Product" -> ("components" :> "_get_component")
                             @@ ("versions" :> "_get_version")
                             @@ ("milestones" :> "_get_milestone")
      [] kind = "BugField" -> ("values" :> "BugFieldValue")
      [] kind = "User" -> ("groups" :> "_get_group") @@ ("saved_searches" :> "Search")
                          @@ ("saved_reports" :> "Search")
      [] kind = "Group" -> ("membership" :> "_get_user")
      [] OTHER -> EmptyMap

FieldType(kind, key) ==
    CASE key \in TimestampFields(kind) -> "timestamp"
      [] key \in DateFields(kind) -> "date"
      [] key \in BlobFields(kind) -> "blob"
      [] key \in DOMAIN NestedFields(kind) -> "nested"
      [] kind = "Component" /\ key = "flag_types" -> "flag_types"
      [] key \in IntBoolFields(kind) -> "intbool"
      [] OTHER -> ATTRIBUTES(kind)[key][1]

\* A payload of a nested object.
NestedPayload(func) ==
    IF func = "_get_attachment_flag"
    THEN Dict(("name" :> X) @@ ("creation_date" :> TS))
    ELSE Dict(("name" :> X))

\* The well-formed wire values of a field.
WireValues(kind, key) ==
    LET t == FieldType(kind, key)
    IN CASE t = "timestamp" -> {TS}
         [] t = "date" -> {DS}
         [] t = "blob" -> {Str(b[2]) : b \in Blobs}
         [] t = "intbool" -> {Num(0), Num(1), True}
         [] t = "bool" -> {True, False}
         [] t = "nested" -> {EmptyList, List(<<NestedPayload(NestedFields(kind)[key])>>)}
         [] t = "flag_types" -> {Dict(("bug" :> List(<<Dict(("name" :> X))>>)))}
         [] t = "int" -> {Num(5)}
         [] t = "list" -> {List(<<X>>)}
         [] OTHER -> {X}

\* The payloads with at most n of the declared fields of a kind.
RECURSIVE WireMaps(_, _)
WireMaps(kind, n) ==
    IF n = 0 THEN {EmptyMap}
    ELSE LET P == WireMaps(kind, n - 1)
         IN P \cup UNION {{m @@ (key :> v) : v \in WireValues(kind, key)} :
                            m \in P, key \in DOMAIN ATTRIBUTES(kind)}

InitDecode ==
    /\ \E kind \in DecodedKinds :
          input \in {[how |-> "decode", kind |-> kind, attrs |-> Dict(m)] :
                        m \in WireMaps(kind, MaxFields)}
    /\ entity = None
    /\ hist = NoHist
    /\ proxy = LazyUserInit(Loader, Seed)
    /\ pc = <<>>
    /\ rd = <<>>
    /\ loaderCalls = 0
    /\ loaderFails = 0
    /\ reads = 0
    /\ loaded = None
    /\ heap = EmptyMap
    /\ fieldsOf = <<>>
    /\ expected = <<>>
    /\ appends = 0

\* _get_<kind>(data)
Decoding ==
    /\ entity = None
    /\ input.how = "decode"
    /\ entity' = Apply(Decoder(input.kind), input.attrs)
    /\ UNCHANGED <<input, hist, lazyVars, heapVars>>

SpecDecode == InitDecode /\ [][Decoding]_vars

-----------------------------------------------------------------------------
(* Attachments: built, then data assigned *)

MaxAssigns == 2

\* Attachment(attributes) with or without size and data, or a payload whose
\* size need not be the length of its data.
AttachmentInputs ==
    LET sizes(vals) == {EmptyMap} \cup {("size" :> v) : v \in vals}
        datas(vals) == {EmptyMap} \cup {("data" :> v) : v \in vals}
    IN {[how |-> "new", kind |-> "Attachment", attrs |-> Dict(a @@ b)] :
            a \in sizes({Num(5)}), b \in datas({Bytes(x[1]) : x \in Blobs})}
       \cup
       {[how |-> "decode", kind |-> "Attachment", attrs |-> Dict(a @@ b)] :
            a \in sizes({Num(0), Num(5)}), b \in datas({Str(x[2]) : x \in Blobs})}

InitAttachment ==
    /\ input \in AttachmentInputs
    /\ entity = None
    /\ hist = NoHist
    /\ proxy = LazyUserInit(Loader, Seed)
    /\ pc = <<>>
    /\ rd = <<>>
    /\ loaderCalls = 0
    /\ loaderFails = 0
    /\ reads = 0
    /\ loaded = None
    /\ heap = EmptyMap
    /\ fieldsOf = <<>>
    /\ expected = <<>>
    /\ appends = 0

\* The bytes the attachment is built with.
GivenData(in) ==
    IF "data" \notin DOMAIN in.attrs[2] THEN <<>>
    ELSE IF in.how = "new" THEN in.attrs[2]["data"][2]
    ELSE (CHOOSE b \in Blobs : b[2] = in.attrs[2]["data"][2])[1]

\* Attachment(attributes) or _get_attachment(data)
BuildAttachment ==
    /\ entity = None
    /\ entity' = IF input.how = "new" THEN Construct("Attachment", input.attrs)
                 ELSE _get_attachment(input.attrs)
    /\ hist' = [hist EXCEPT !.data = GivenData(input)]
    /\ UNCHANGED <<input, lazyVars, heapVars>>

\* attachment.data = b
AssignData(b) ==
    /\ entity # None
    /\ hist.steps < MaxAssigns
    /\ entity' = setitem(entity, "data", Bytes(b))
    /\ hist' = [hist EXCEPT !.data = b, !.steps = hist.steps + 1]
    /\ UNCHANGED <<input, lazyVars, heapVars>>

AttachmentNext ==
    \/ BuildAttachment
    \/ \E b \in Blobs : AssignData(b[1])

SpecAttachment == InitAttachment /\ [][AttachmentNext]_vars

-----------------------------------------------------------------------------
(* Entities on the heap: mutable defaults, copy.deepcopy and aliasing.     *)
(* A list or a dict is a cell at an address <<owner, kind, path>>; owner 0 *)
(* is the class attribute ATTRIBUTES, owner e is the e-th entity built.    *)
(* A field that holds a list or a dict holds a reference to its cell.      *)

MaxEntities == 2
MaxAppends == 2

\* The classes built on the heap: each has a list default, Component a dict of lists.
HeapKinds == {"Component", "Attachment", "User"}

\* What a caller appends.
Item == Num(7)

IsMutable(v) == v[1] \in {"list", "dict"}

\* The union of functions with disjoint domains.
Merge(S) ==
    [a \in UNION {DOMAIN f : f \in S} |-> (CHOOSE f \in S : a \in DOMAIN f)[a]]

\* What a field or an item holds for the value v placed at that address.
Handle(owner, kind, path, v) ==
    IF IsMutable(v) THEN Ref(<<owner, kind, path>>) ELSE v

\* The cells of the value v placed at that address.
RECURSIVE Cells(_, _, _, _)
Cells(owner, kind, path, v) ==
    CASE v[1] = "list" -> <<owner, kind, path>> :> v
      [] v[1] = "dict" ->
            (<<owner, kind, path>> :>
                Dict([k \in DOMAIN v[2] |-> Handle(owner, kind, Append(path, k), v[2][k])]))
            @@ Merge({Cells(owner, kind, Append(path, k), v[2][k]) : k \in DOMAIN v[2]})
      [] OTHER -> EmptyMap

\* K.ATTRIBUTES as the class statement leaves it: the dict's items.
SchemaFields(kind) ==
    [key \in DOMAIN ATTRIBUTES(kind) |->
        Handle(0, kind, <<key>>, ATTRIBUTES(kind)[key])]

\* The lists and dicts the class statements allocate.
SchemaCells ==
    Merge(UNION {{Cells(0, kind, <<key>>, ATTRIBUTES(kind)[key]) :
                     key \in DOMAIN ATTRIBUTES(kind)} : kind \in HeapKinds})

deepcopy_mutAlias(h, v, owner) == [value |-> v, cells |-> EmptyMap]

\* copy.deepcopy of one item of the schema, for the entity `owner`: a list or
\* a dict is rebuilt in new cells with the contents it has now, anything else
\* is immutable and returned as it is.
RECURSIVE deepcopy(_, _, _)
deepcopy(h, v, owner) ==
    IF v[1] # "ref" THEN [value |-> v, cells |-> EmptyMap]
    ELSE LET to == <<owner, v[2][2], v[2][3]>>
             cell == h[v[2]]
         IN IF cell[1] = "list" THEN [value |-> Ref(to), cells |-> to :> cell]
            ELSE LET sub == [k \in DOMAIN cell[2] |-> deepcopy(h, cell[2][k], owner)]
                 IN [value |-> Ref(to),
                     cells |-> (to :> Dict([k \in DOMAIN cell[2] |-> sub[k].value]))
                               @@ Merge({sub[k].cells : k \in DOMAIN cell[2]})]

\* The value a reference shows now.
RECURSIVE Deref(_, _)
Deref(h, v) ==
    IF v[1] # "ref" THEN v
    ELSE LET cell == h[v[2]]
         IN IF cell[1] = "list" THEN cell
            ELSE Dict([k \in DOMAIN cell[2] |-> Deref(h, cell[2][k])])

View(h, fields) == [key \in DOMAIN fields |-> Deref(h, fields[key])]

\* The attribute mappings given on the heap: none, or one list field given as a string.
HeapGiven(kind) ==
    {EmptyMap} \cup {key :> X : key \in {k \in DOMAIN ATTRIBUTES(kind) :
                                            IsMutable(ATTRIBUTES(kind)[k])}}

\* The lists reachable from an entity's fields: the access path and the address.
Targets(h, fields) ==
    UNION {LET v == fields[key]
           IN IF v[1] # "ref" THEN {}
              ELSE IF h[v[2]][1] = "list" THEN {<<<<key>>, v[2]>>}
              ELSE {<<<<key, k>>, h[v[2]][2][k][2]>> : k \in DOMAIN h[v[2]][2]}
           : key \in DOMAIN fields}

\* The values after .append(Item) on the list at that path.
Appended(fields, path) ==
    IF Len(path) = 1
    THEN [fields EXCEPT ![path[1]] = List(Append(@[2], Item))]
    ELSE [fields EXCEPT ![path[1]] =
             Dict([@[2] EXCEPT ![path[2]] = List(Append(@[2], Item))])]

InitHeap ==
    /\ heap = SchemaCells
    /\ fieldsOf = <<>>
    /\ expected = <<>>
    /\ appends = 0
    /\ entity = None
    /\ input = NoInput
    /\ hist = NoHist
    /\ proxy = LazyUserInit(Loader, Seed)
    /\ pc = <<>>
    /\ rd = <<>>
    /\ loaderCalls = 0
    /\ loaderFails = 0
    /\ reads = 0
    /\ loaded = None

\* K(attributes): dict.__init__ takes the items, set_default_attributes stores
\* a copy of every default whose key is not there; the other copies are dropped.
HeapConstruct(kind, attributes) ==
    /\ Len(fieldsOf) < MaxEntities
    /\ LET e == Len(fieldsOf) + 1
           copy == [key \in DOMAIN ATTRIBUTES(kind) |->
                       deepcopy(heap, SchemaFields(kind)[key], e)]
           stored == DOMAIN copy \ DOMAIN attributes
       IN /\ heap' = Merge({copy[key].cells : key \in stored}) @@ heap
          /\ fieldsOf' = Append(fieldsOf,
                [kind |-> kind,
                 fields |-> set_default_attributes(attributes,
                                [key \in DOMAIN copy |-> copy[key].value])])
          /\ expected' = Append(expected,
                                set_default_attributes(attributes, ATTRIBUTES(kind)))
    /\ UNCHANGED <<appends, lazyVars, valueVars>>

\* entity.key.append(item) or entity.key[k].append(item), by a caller
HeapAppend(e, target) ==
    /\ appends < MaxAppends
    /\ heap' = [heap EXCEPT ![target[2]] = List(Append(@[2], Item))]
    /\ expected' = [expected EXCEPT ![e] = Appended(@, target[1])]
    /\ appends' = appends + 1
    /\ UNCHANGED <<fieldsOf, lazyVars, valueVars>>

HeapNext ==
    \/ \E kind \in HeapKinds : \E attributes \in HeapGiven(kind) :
          HeapConstruct(kind, attributes)
    \/ \E e \in DOMAIN fieldsOf : \E target \in Targets(heap, fieldsOf[e].fields) :
          HeapAppend(e, target)

SpecHeap == InitHeap /\ [][HeapNext]_vars

-----------------------------------------------------------------------------
(* Virtual fields: a Bug or an Attachment built, then assigned to *)

MaxDetail == 2
MaxWrites == 2

\* A user record of the wire, as the *_detail fields hold it.
Named(n) == Dict(("name" :> Str(<<n>>)) @@ ("id" :> Num(1)))

\* Bug.__getitem__: the stored field each virtual field of a Bug reads.
DetailOf ==
    ("assigned_to" :> "assigned_to_detail") @@ ("cc" :> "cc_detail")
    @@ ("creator" :> "creator_detail") @@ ("qa_contact" :> "qa_contact_detail")

\* The fields __setitem__ refuses.
VirtualFields(kind) ==
    CASE kind = "Bug" -> {"assigned_to", "cc", "creator", "qa_contact"}
      [] kind = "Attachment" -> {"size"}
      [] OTHER -> {}

\* The values a Bug is built with, by key: the detail records, and entries
\* under the names of the virtual fields themselves.
DetailValues(key) ==
    CASE key = "cc_detail" ->
            {EmptyList, List(<<Named("a")>>), List(<<Named("b"), None, Named("a")>>)}
      [] key \in {"assigned_to_detail", "creator_detail", "qa_contact_detail"} ->
            {None, Named("a"), Named("b")}
      [] key = "cc" -> {List(<<X>>)}
      [] OTHER -> {X}

DetailKeys == DOMAIN DetailOf \cup {DetailOf[a] : a \in DOMAIN DetailOf}

RECURSIVE DetailMaps(_)
DetailMaps(n) ==
    IF n = 0 THEN {EmptyMap}
    ELSE LET P == DetailMaps(n - 1)
         IN P \cup UNION {{m @@ (key :> v) : v \in DetailValues(key)} :
                            m \in P, key \in DetailKeys}

VirtualInputs ==
    {[how |-> h, kind |-> "Bug", attrs |-> Dict(m)] :
        h \in {"new", "decode"}, m \in DetailMaps(MaxDetail)}
    \cup AttachmentInputs

\* K(attributes) or _get_<kind>(data), as the input says.
Built(in) ==
    IF in.how = "new" THEN Construct(in.kind, in.attrs)
    ELSE Apply(Decoder(in.kind), in.attrs)

\* BugzillaObject.__setattr__
setattr(o, attr, value) == setitem(o, attr, value)

\* What a caller assigns, and to which fields besides the virtual ones.
WrittenValue(attr) == IF attr = "assigned_to_detail" THEN Named("b") ELSE X
WrittenFields(kind) ==
    VirtualFields(kind) \cup
    (IF kind = "Bug" THEN {"summary", "assigned_to_detail"} ELSE {"summary"})

NoWrite == [steps |-> 0, by |-> "", attr |-> "", before |-> None, out |-> Unset]

InitVirtual ==
    /\ input \in VirtualInputs
    /\ entity = None
    /\ hist = NoWrite
    /\ proxy = LazyUserInit(Loader, Seed)
    /\ pc = <<>>
    /\ rd = <<>>
    /\ loaderCalls = 0
    /\ loaderFails = 0
    /\ reads = 0
    /\ loaded = None
    /\ heap = EmptyMap
    /\ fieldsOf = <<>>
    /\ expected = <<>>
    /\ appends = 0

BuildVirtual ==
    /\ entity = None
    /\ entity' = Built(input)
    /\ UNCHANGED <<input, hist, lazyVars, heapVars>>

\* entity.attr = value (by = "attr") or entity[attr] = value (by = "key"):
\* an exception leaves the object as it was.
Write(by, attr) ==
    /\ entity # None
    /\ hist.steps < MaxWrites
    /\ attr \in WrittenFields(input.kind)
    /\ LET r == IF by = "attr" THEN setattr(entity, attr, WrittenValue(attr))
                ELSE setitem(entity, attr, WrittenValue(attr))
       IN /\ entity' = IF IsRaised(r) THEN entity ELSE r
          /\ hist' = [steps |-> hist.steps + 1, by |-> by, attr |-> attr,
                      before |-> entity, out |-> IF IsRaised(r) THEN r ELSE None]
    /\ UNCHANGED <<input, lazyVars, heapVars>>

VirtualNext ==
    \/ BuildVirtual
    \/ \E by \in {"attr", "key"} :
          \E attr \in {"assigned_to", "cc", "creator", "qa_contact", "size",
                       "summary", "assigned_to_detail"} : Write(by, attr)

SpecVirtual == InitVirtual /\ [][VirtualNext]_vars

-----------------------------------------------------------------------------
(* bugzilla/objects.py: can_be_added, can_be_updated, add_json, update_json *)

\* key.startswith(Bug.CUSTOM_FIELD_PREFIX) for the keys an entity is given
\* besides those of its schema, none of which begins with "cf_".
startswith_cf(key) == key \in {"cf_x", "cf_"}

\* Keys that are in no schema.
ExtraKeys == {"cf_x", "cf_", "cfx"}

\* bool(self.a and self.b and ...): reads from the left until a falsy value;
\* a read that raises ends the call.
AllSet(o, fields) ==
    LET v == [i \in 1..Len(fields) |-> getitem(o, fields[i])]
        stop == {i \in 1..Len(fields) : IsRaised(v[i]) \/ ~Truthy(v[i])}
    IN IF stop = {} THEN True
       ELSE LET i == CHOOSE j \in stop : \A k \in stop : j <= k
            IN IF IsRaised(v[i]) THEN v[i] ELSE False

can_be_added_mutTrue(o) == True

can_be_added(o) ==
    LET c == o[2].class
    IN CASE c = "Bug" -> AllSet(o, <<"product", "component", "summary", "version">>)
         [] c = "Product" -> AllSet(o, <<"name", "description", "version">>)
         [] c = "Component" -> AllSet(o, <<"name", "description", "default_assigned_to">>)
         [] c = "FlagType" -> AllSet(o, <<"name", "description">>)
         [] c = "Attachment" -> AllSet(o, <<"file_name", "summary", "content_type">>)
         [] c = "Comment" -> AllSet(o, <<"text">>)
         [] c = "User" -> AllSet(o, <<"email">>)
         [] c = "Group" -> AllSet(o, <<"name", "description">>)
         [] OTHER -> False

can_be_updated(o) ==
    IF o[2].class \in {"Bug", "Product", "Component", "FlagType", "Attachment",
                       "User", "Group"}
    THEN LET id == getitem(o, "id")
         IN IF IsRaised(id) THEN id ELSE Bool(id # Num(-1))
    ELSE False

\* for field in fields: [if self[field]:] dct[field] = self[field]
Fields(o, fields, onlySet) ==
    LET v == Collect([i \in 1..Len(fields) |-> getitem(o, fields[i])])
    IN IF IsRaised(v) THEN v
       ELSE Dict([key \in {fields[i] : i \in {j \in 1..Len(fields) :
                                              ~onlySet \/ Truthy(v[2][j])}} |->
                     getitem(o, key)])

\* dct[key] = value, after what built dct and value
Put(dct, key, value) ==
    IF IsRaised(dct) THEN dct
    ELSE IF IsRaised(value) THEN value
    ELSE Dict(update(dct[2], key :> value))

\* Bug.get_custom_fields
get_custom_fields(o) ==
    [key \in {k \in DOMAIN o[2].fields : startswith_cf(k)} |-> o[2].fields[key]]

\* flag.to_json(): no class has the method, so the lookup goes to __getattr__
\* and from there to __getitem__.
to_json(flag) ==
    IF flag[1] = "obj"
    THEN (IF "to_json" \in DOMAIN flag[2].fields THEN Raised("TypeError")
          ELSE Raised("KeyError"))
    ELSE Raised("AttributeError")

\* Attachment.add_json / update_json: the dict of one flag
flag_dct(flag) ==
    IF flag[1] # "obj" THEN Raised("AttributeError")
    ELSE LET d == Fields(flag, <<"name", "type_id", "status">>, FALSE)
             r == getitem(flag, "requestee")
         IN IF IsRaised(d) THEN d
            ELSE IF IsRaised(r) THEN r
            ELSE IF Truthy(r) THEN Put(d, "requestee", r) ELSE d

\* [f(x) for x in self.flags]
ForFlags(o, isBug) ==
    LET flags == getitem(o, "flags")
    IN IF IsRaised(flags) THEN flags
       ELSE IF flags[1] # "list" THEN Raised("TypeError")
       ELSE Collect([i \in 1..Len(flags[2]) |->
                        IF isBug THEN to_json(flags[2][i]) ELSE flag_dct(flags[2][i])])

add_json(o) ==
    LET c == o[2].class
    IN CASE c = "Bug" ->
              LET d == Put(Fields(o, <<"product", "component", "summary", "version",
                                       "op_sys", "platform", "priority", "severity",
                                       "alias", "assigned_to", "cc", "groups", "keywords",
                                       "qa_contact", "status", "resolution",
                                       "target_milestone">>, TRUE),
                           "flags", ForFlags(o, TRUE))
              IN IF IsRaised(d) THEN d ELSE Dict(update(d[2], get_custom_fields(o)))
         [] c = "Product" ->
              Fields(o, <<"name", "description", "version", "has_unconfirmed",
                          "classification", "default_milestone">>, FALSE)
         [] c = "Component" ->
              Put(Fields(o, <<"name", "description", "default_qa_contact">>, FALSE),
                  "default_assignee", getitem(o, "default_assigned_to"))
         [] c = "FlagType" ->
              LET d == Fields(o, <<"name", "description", "is_active", "is_requestable",
                                   "cc_list", "is_multiplicable">>, FALSE)
                  g == Fields(o, <<"grant_group", "request_group">>, TRUE)
                  k == getitem(o, "sort_key")
              IN IF IsRaised(d) THEN d
                 ELSE IF IsRaised(g) THEN g
                 ELSE IF IsRaised(k) THEN k
                 ELSE IF Truthy(k) THEN Put(Dict(update(d[2], g[2])), "sortkey", k)
                 ELSE Dict(update(d[2], g[2]))
         [] c = "Attachment" ->
              LET d == Fields(o, <<"is_patch", "summary", "content_type", "file_name",
                                   "is_private">>, FALSE)
                  data == getitem(o, "data")
              IN Put(Put(d, "data", IF IsRaised(data) THEN data ELSE b64encode(data)),
                     "flags", ForFlags(o, FALSE))
         [] c = "Comment" ->
              LET d == Put(Fields(o, <<"is_private", "is_markdown">>, FALSE),
                           "comment", getitem(o, "text"))
                  tags == getitem(o, "tags")
              IN IF IsRaised(d) THEN d
                 ELSE IF IsRaised(tags) THEN tags
                 ELSE IF Truthy(tags) THEN Put(d, "comment_tags", tags) ELSE d
         [] c = "User" ->
              Put(Put(Dict(EmptyMap), "email", getitem(o, "email")),
                  "full_name", getitem(o, "real_name"))
         [] c = "Group" ->
              Fields(o, <<"name", "description", "user_regexp", "is_active">>, FALSE)
         [] OTHER -> Raised("RuntimeError")

update_json(o) ==
    LET c == o[2].class
    IN CASE c = "Bug" ->
              LET d == Put(Fields(o, <<"assigned_to", "is_cc_accessible", "op_sys",
                                       "platform", "priority", "qa_contact",
                                       "is_creator_accessible", "resolution", "severity",
                                       "status", "summary", "url", "version",
                                       "whiteboard">>, FALSE),
                           "deadline",
                           LET dl == getitem(o, "deadline")
                           IN IF IsRaised(dl) THEN dl ELSE encode_bugzilla_date(dl))
              IN IF IsRaised(d) THEN d ELSE Dict(update(d[2], get_custom_fields(o)))
         [] c = "Product" ->
              Fields(o, <<"name", "default_milestone", "description",
                          "has_unconfirmed">>, FALSE)
         [] c = "Component" ->
              Put(Fields(o, <<"name", "description", "default_qa_contact">>, FALSE),
                  "default_assignee", getitem(o, "default_assigned_to"))
         [] c = "FlagType" -> add_json(o)
         [] c = "Attachment" ->
              Put(Fields(o, <<"file_name", "summary", "content_type", "is_patch",
                              "is_private", "is_obsolete">>, FALSE),
                  "flags", ForFlags(o, FALSE))
         [] c = "User" ->
              Put(Fields(o, <<"email", "email_enabled", "login_denied_text">>, FALSE),
                  "full_name", getitem(o, "real_name"))
         [] c = "Group" ->
              Fields(o, <<"name", "description", "user_regexp", "is_active">>, FALSE)
         [] OTHER -> Raised("RuntimeError")

-----------------------------------------------------------------------------
(* bugzilla/__init__.py: the write endpoints add_<kind> and update_<kind> *)

\* What an endpoint returned or raised, and the number of requests it sent.
Outcome(out, sent) == [out |-> out, sent |-> sent]

\* What the server's answer is turned into.
Answer == <<"answer", 0>>

\* "...%i" % ids[0] after: if isinstance(ids, int): ids = [ids]
Path(ids) == IF ids[1] \in {"int", "bool"} THEN Empty ELSE Raised("TypeError")

\* if not ok: raise BugzillaException(-1, ...); then the payload, the path and
\* the request, in this order: what raises first ends the call.
Guarded(ok, data, path) ==
    IF IsRaised(ok) THEN Outcome(ok, 0)
    ELSE IF ~Truthy(ok) THEN Outcome(Raised("BugzillaException"), 0)
    ELSE IF IsRaised(data) THEN Outcome(data, 0)
    ELSE IF IsRaised(path) THEN Outcome(path, 0)
    ELSE Outcome(Answer, 1)

\* add_attachment, add_bug, add_comment, add_component, add_group, add_user,
\* add_product, add_flag_type: each tests can_be_added first.
add_endpoint(o) == Guarded(can_be_added(o), add_json(o), Empty)

\* update_attachment, update_bug, update_group, update_user, update_product,
\* update_flag_type test can_be_updated first; update_component builds the
\* payload and sends it.
update_endpoint(o) ==
    IF o[2].class = "Component"
    THEN Guarded(True, update_json(o), Empty)
    ELSE Guarded(can_be_updated(o), update_json(o), Path(getitem(o, "id")))

-----------------------------------------------------------------------------
(* Entities built, then asked for their payloads and sent *)

MaxSet == 2

\* The classes that can be added or updated.
SentKinds == {"Bug", "Product", "Component", "FlagType", "Attachment", "Comment",
              "User", "Group"}

\* The fields can_be_added reads.
Required(kind) ==
    CASE kind = "Bug" -> {"product", "component", "summary", "version"}
      [] kind = "Product" -> {"name", "description", "version"}
      [] kind = "Component" -> {"name", "description", "default_assigned_to"}
      [] kind = "FlagType" -> {"name", "description"}
      [] kind = "Attachment" -> {"file_name", "summary", "content_type"}
      [] kind = "Comment" -> {"text"}
      [] kind = "User" -> {"email"}
      [] kind = "Group" -> {"name", "description"}

\* The fields the four methods read, and for a Bug keys of no schema.
SentKeys(kind) ==
    Required(kind) \cup {"id"} \cup
    CASE kind = "Bug" ->
            {"op_sys", "platform", "priority", "severity", "alias", "assigned_to_detail",
             "cc_detail", "groups", "keywords", "qa_contact_detail", "status",
             "resolution", "target_milestone", "flags", "is_cc_accessible",
             "is_creator_accessible", "url", "whiteboard", "deadline"} \cup ExtraKeys
      [] kind = "Product" -> {"has_unconfirmed", "classification", "default_milestone"}
      [] kind = "Component" -> {"default_qa_contact"}
      [] kind = "FlagType" -> {"is_active", "is_requestable", "cc_list",
                               "is_multiplicable", "grant_group", "request_group",
                               "sort_key"}
      [] kind = "Attachment" -> {"is_patch", "is_private", "is_obsolete", "data", "flags"}
      [] kind = "Comment" -> {"is_private", "is_markdown", "tags"}
      [] kind = "User" -> {"real_name", "email_enabled", "login_denied_text"}
      [] kind = "Group" -> {"user_regexp", "is_active"}

ADate == DateTime(<<2020, 1, 2, 0, 0, 0>>)

\* The values an entity is built with, by key: for a required field a text,
\* the empty text and None; else one value that is not the default.
SetValues(how, kind, key) ==
    CASE key \in Required(kind) -> {Empty, X, None}
      [] key = "flags" ->
            {List(<<IF how = "new" THEN New("AttachmentFlag", "name" :> X)
                    ELSE Dict("name" :> X)>>)}
      [] key = "deadline" -> {IF how = "new" THEN ADate ELSE DS}
      [] key = "data" -> {Bytes(<<97>>)}
      [] key = "cc_detail" -> {List(<<Named("a")>>)}
      [] key \in {"assigned_to_detail", "qa_contact_detail"} -> {Named("a")}
      [] key \in {"grant_group", "request_group", "id", "sort_key"} -> {Num(5)}
      [] key \in ExtraKeys -> {X}
      [] ATTRIBUTES(kind)[key][1] = "bool" -> {Bool(~ATTRIBUTES(kind)[key][2])}
      [] ATTRIBUTES(kind)[key][1] = "list" -> {List(<<X>>)}
      [] OTHER -> {X}

\* Every required field set.
Ready(kind) == [key \in Required(kind) |-> X]

\* Ready or nothing, then at most n keys set.
RECURSIVE SentMaps(_, _, _)
SentMaps(how, kind, n) ==
    IF n = 0 THEN {EmptyMap, Ready(kind)}
    ELSE LET P == SentMaps(how, kind, n - 1)
         IN P \cup UNION {{update(m, key :> v) : v \in SetValues(how, kind, key)} :
                            m \in P, key \in SentKeys(kind)}

NoCall == [method |-> "", out |-> Unset, sent |-> 0]

InitSent ==
    /\ \E kind \in SentKinds : \E how \in {"new", "decode"} :
          /\ how = "decode" => kind = "Bug"
          /\ input \in {[how |-> how, kind |-> kind, attrs |-> Dict(m)] :
                           m \in SentMaps(how, kind, MaxSet)}
    /\ entity = None
    /\ hist = NoCall
    /\ proxy = LazyUserInit(Loader, Seed)
    /\ pc = <<>>
    /\ rd = <<>>
    /\ loaderCalls = 0
    /\ loaderFails = 0
    /\ reads = 0
    /\ loaded = None
    /\ heap = EmptyMap
    /\ fieldsOf = <<>>
    /\ expected = <<>>
    /\ appends = 0

BuildSent ==
    /\ entity = None
    /\ entity' = Built(input)
    /\ UNCHANGED <<input, hist, lazyVars, heapVars>>

\* The calls below change nothing of the entity: one call on each entity built
\* shows what every call on it gives.

\* entity.can_be_added()
CanBeAdded ==
    /\ entity # None
    /\ hist.method = ""
    /\ hist' = [method |-> "can_be_added", out |-> can_be_added(entity), sent |-> 0]
    /\ UNCHANGED <<entity, input, lazyVars, heapVars>>

\* entity.can_be_updated()
CanBeUpdated ==
    /\ entity # None
    /\ hist.method = ""
    /\ hist' = [method |-> "can_be_updated", out |-> can_be_updated(entity), sent |-> 0]
    /\ UNCHANGED <<entity, input, lazyVars, heapVars>>

\* entity.add_json()
AddJson ==
    /\ entity # None
    /\ hist.method = ""
    /\ hist' = [method |-> "add_json", out |-> add_json(entity), sent |-> 0]
    /\ UNCHANGED <<entity, input, lazyVars, heapVars>>

\* entity.update_json()
UpdateJson ==
    /\ entity # None
    /\ hist.method = ""
    /\ input.kind # "Comment"
    /\ hist' = [method |-> "update_json", out |-> update_json(entity), sent |-> 0]
    /\ UNCHANGED <<entity, input, lazyVars, heapVars>>

\* bugzilla.add_<kind>(entity, ...)
AddEntity ==
    /\ entity # None
    /\ hist.method = ""
    /\ hist' = [method |-> "add"] @@ add_endpoint(entity)
    /\ UNCHANGED <<entity, input, lazyVars, heapVars>>

\* bugzilla.update_<kind>(entity)
UpdateEntity ==
    /\ entity # None
    /\ hist.method = ""
    /\ input.kind # "Comment"
    /\ hist' = [method |-> "update"] @@ update_endpoint(entity)
    /\ UNCHANGED <<entity, input, lazyVars, heapVars>>

SentNext ==
    \/ BuildSent
    \/ CanBeAdded
    \/ CanBeUpdated
    \/ AddJson
    \/ UpdateJson
    \/ AddEntity
    \/ UpdateEntity

SpecSent == InitSent /\ [][SentNext]_vars

-----------------------------------------------------------------------------
(* bugzilla/__init__.py: _read_request and the answers of the server *)

MaxRequests == 2

Body(text) == <<"body", text>>

\* The answers a server gives: the HTTP status and the text of the body.
Statuses == {200, 400, 500}

\* Texts that are JSON, with what json.loads makes of them.
JsonTexts ==
    {<<"{\"error\":true,\"code\":51,\"message\":\"m\"}",
       Dict(("error" :> True) @@ ("code" :> Num(51)) @@ ("message" :> Str(<<"m">>)))>>,
     <<"{\"error\":false,\"code\":51,\"message\":\"m\"}",
       Dict(("error" :> False) @@ ("code" :> Num(51)) @@ ("message" :> Str(<<"m">>)))>>,
     <<"{\"id\":1}", Dict("id" :> Num(1))>>,
     <<"{}", Dict(EmptyMap)>>,
     <<"[1]", List(<<Num(1)>>)>>,
     <<"null", None>>}

\* Texts that are not.
OtherTexts == {"", "<html>Internal Server Error</html>"}

Bodies == {Body(j[1]) : j \in JsonTexts} \cup {Body(t) : t \in OtherTexts}

\* json.loads(data.decode(self.charset))
loads(body) ==
    IF \E j \in JsonTexts : j[1] = body[2]
    THEN (CHOOSE j \in JsonTexts : j[1] = body[2])[2]
    ELSE Raised("ValueError")

\* What a call gives: the value returned or the exception raised, and the
\* arguments of the exception.
Result(out, args) == [out |-> out, args |-> args]

\* urlopen(request) raises HTTPError for a status that is not a success.
IsHTTPError(status) == status >= 400

_read_request_mutStatus(status, body) ==
    IF IsHTTPError(status) THEN Result(Raised("HTTPError"), <<>>)
    ELSE Result(loads(body), <<>>)

\* Bugzilla._read_request, from the answer on: the body is decoded, after an
\* HTTPError too; an HTTPError whose body is no JSON is raised again; a dict
\* with a true "error" raises BugzillaException(code, message).
_read_request(status, body) ==
    LET obj == loads(body)
    IN IF IsRaised(obj)
       THEN (IF IsHTTPError(status) THEN Result(Raised("HTTPError"), <<>>)
             ELSE Result(obj, <<>>))
       ELSE IF obj[1] = "dict" /\ "error" \in DOMAIN obj[2] /\ Truthy(obj[2]["error"])
       THEN (IF {"code", "message"} \subseteq DOMAIN obj[2]
             THEN Result(Raised("BugzillaException"), <<obj[2]["code"], obj[2]["message"]>>)
             ELSE Result(Raised("KeyError"), <<>>))
       ELSE Result(obj, <<>>)

\* The calls: _get, _post, _put and _delete with or without data.
Requests ==
    {[how |-> "request", kind |-> m, attrs |-> d] :
        m \in {"GET", "POST", "PUT", "DELETE"}, d \in {None, Dict("ids" :> Num(1))}}

NoAnswer == [steps |-> 0, status |-> 0, body |-> Body(""), out |-> Unset, args |-> <<>>]

InitRequest ==
    /\ input \in Requests
    /\ entity = None
    /\ hist = NoAnswer
    /\ proxy = LazyUserInit(Loader, Seed)
    /\ pc = <<>>
    /\ rd = <<>>
    /\ loaderCalls = 0
    /\ loaderFails = 0
    /\ reads = 0
    /\ loaded = None
    /\ heap = EmptyMap
    /\ fieldsOf = <<>>
    /\ expected = <<>>
    /\ appends = 0

\* self._read_request(method, path, post_data) answered with status and body
ReadRequest(status, body) ==
    /\ hist.steps < MaxRequests
    /\ hist' = [steps |-> hist.steps + 1, status |-> status, body |-> body]
               @@ _read_request(status, body)
    /\ UNCHANGED <<entity, input, lazyVars, heapVars>>

RequestNext == \E status \in Statuses : \E body \in Bodies : ReadRequest(status, body)

SpecRequest == InitRequest /\ [][RequestNext]_vars

-----------------------------------------------------------------------------
(* The codec: a timestamp or a date encoded, then parsed *)

\* The timestamps and dates encoded: years of one to four digits, the ends of
\* the ranges of every part; a date is a datetime at midnight, as
\* parse_bugzilla_date gives it.
Years == {1, 999, 1000, 2020, 9999}

Timestamps ==
    {DateTime(<<y, mo, d, h, mi, s>>) :
        y \in Years, mo \in {1, 2, 12}, d \in {1, 9, 28, 29, 31},
        h \in {0, 9, 23}, mi \in {0, 59}, s \in {0, 5, 59}}

Valid(dt) == dt[2][3] <= DaysIn(dt[2][1], dt[2][2])

CodecInputs ==
    {[how |-> "datetime", kind |-> "", attrs |-> x] :
        x \in {None} \cup {t \in Timestamps : Valid(t)}}
    \cup
    {[how |-> "date", kind |-> "", attrs |-> x] :
        x \in {None} \cup {t \in Timestamps :
                              Valid(t) /\ t[2][4] = 0 /\ t[2][5] = 0 /\ t[2][6] = 0}}

NoCodec == [steps |-> 0, out |-> Unset]

InitCodec ==
    /\ input \in CodecInputs
    /\ entity = Unset
    /\ hist = NoCodec
    /\ proxy = LazyUserInit(Loader, Seed)
    /\ pc = <<>>
    /\ rd = <<>>
    /\ loaderCalls = 0
    /\ loaderFails = 0
    /\ reads = 0
    /\ loaded = None
    /\ heap = EmptyMap
    /\ fieldsOf = <<>>
    /\ expected = <<>>
    /\ appends = 0

\* encode_bugzilla_datetime(x) or encode_bugzilla_date(x)
Encode ==
    /\ hist.steps = 0
    /\ entity' = IF input.how = "datetime" THEN encode_bugzilla_datetime(input.attrs)
                 ELSE encode_bugzilla_date(input.attrs)
    /\ hist' = [hist EXCEPT !.steps = 1]
    /\ UNCHANGED <<input, lazyVars, heapVars>>

\* parse_bugzilla_datetime(text) or parse_bugzilla_date(text) of the text encoded
Parse ==
    /\ hist.steps = 1
    /\ entity # None
    /\ hist' = [steps |-> 2,
                out |-> IF input.how = "datetime" THEN parse_bugzilla_datetime(entity)
                        ELSE parse_bugzilla_date(entity)]
    /\ UNCHANGED <<entity, input, lazyVars, heapVars>>

CodecNext ==
    \/ Encode
    \/ Parse

SpecCodec == InitCodec /\ [][CodecNext]_vars

-----------------------------------------------------------------------------
(* bugzilla/__init__.py: the read endpoints get_time, get_comments_by_bug,  *)
(* get_last_visited and update_last_visited. Each takes the decoded answer  *)
(* of its one request as a parameter.                                        *)

\* The names bugzilla/__init__.py binds at module level: its imports, the
\* names objects.py exports with "import *", and its two classes.
ModuleNames ==
    {"json", "b64decode", "urlencode", "quote_plus", "urlopen", "Request",
     "HTTPError", "parse_bugzilla_datetime", "base64", "deepcopy",
     "encode_bugzilla_date", "BugzillaException", "Bugzilla", "BugzillaObject"}
    \cup Kinds

\* Reading a name in a method: a parameter or local, else a module name, else
\* NameError.
Name(name, locals) ==
    IF name \in DOMAIN locals THEN locals[name]
    ELSE IF name \in ModuleNames THEN <<"global", name>>
    ELSE Raised("NameError")

\* str(x) of an int or a str, as the key of a dict.
str(x) ==
    CASE x[1] = "int" -> Digits(x[2])[1]
      [] x[1] = "str" /\ Len(x[2]) = 1 -> x[2][1]
      [] OTHER -> "?"

\* obj[key] for a decoded JSON object
subscript(obj, key) ==
    IF IsRaised(obj) THEN obj
    ELSE IF obj[1] # "dict" THEN Raised("TypeError")
    ELSE IF key \notin DOMAIN obj[2] THEN Raised("KeyError")
    ELSE obj[2][key]

\* [func(obj) for obj in data]
ForEach(data, func) ==
    IF IsRaised(data) THEN data
    ELSE IF data[1] # "list" THEN Raised("TypeError")
    ELSE Collect([i \in 1..Len(data[2]) |-> Apply(func, data[2][i])])

\* A call that raised before its request, or sent it and returned or raised.
Call(before, out) ==
    IF IsRaised(before) THEN Outcome(before, 0) ELSE Outcome(out, 1)

\* Bugzilla.get_comments_by_bug(bug_id): the first line reads the name bug.
get_comments_by_bug(bug_id, answer) ==
    LET bug == Name("bug", ("self" :> None) @@ ("bug_id" :> bug_id) @@ ("kw" :> None))
        id == IF IsRaised(bug) THEN bug
              ELSE IF bug[1] = "obj" /\ bug[2].class = "Bug" THEN getitem(bug, "id")
              ELSE bug
    IN Call(id, ForEach(subscript(subscript(subscript(answer, "bugs"), str(id)),
                                  "comments"),
                        "_get_comment"))

get_time_mutTwo(answer) ==
    Call(None, _map(_map(answer, "db_time", "parse_bugzilla_datetime"),
                    "web_time", "parse_bugzilla_datetime"))

\* Bugzilla.get_time
get_time(answer) ==
    Call(None, _map(_map(_map(answer, "db_time", "parse_bugzilla_datetime"),
                         "web_time", "parse_bugzilla_datetime"),
                    "web_time_utc", "parse_bugzilla_datetime"))

\* "bug_user_last_visit/%i" % bug_ids[0]
FirstId(bug_ids) ==
    IF bug_ids[1] # "list" THEN Raised("TypeError")
    ELSE IF bug_ids[2] = <<>> THEN Raised("IndexError")
    ELSE Path(bug_ids[2][1])

\* for obj in data: self._map(target, "last_visit_ts", parse_bugzilla_datetime),
\* where atEntry tells whether target is obj or data. _map changes its
\* argument in place: data is what the changes leave.
RECURSIVE MapEach(_, _, _)
MapEach(data, atEntry, i) ==
    IF IsRaised(data) THEN data
    ELSE IF data[1] # "list" THEN Raised("TypeError")
    ELSE IF i > Len(data[2]) THEN data
    ELSE IF atEntry
         THEN LET e == _map(data[2][i], "last_visit_ts", "parse_bugzilla_datetime")
              IN IF IsRaised(e) THEN e
                 ELSE MapEach(List([data[2] EXCEPT ![i] = e]), atEntry, i + 1)
         ELSE MapEach(_map(data, "last_visit_ts", "parse_bugzilla_datetime"),
                      atEntry, i + 1)

\* Bugzilla.get_last_visited
get_last_visited(bug_ids, answer) ==
    Call(IF bug_ids = None \/ bug_ids[1] \in {"int", "bool"} THEN None
         ELSE FirstId(bug_ids),
         MapEach(answer, FALSE, 1))

\* Bugzilla.update_last_visited
update_last_visited(bug_ids, answer) ==
    Call(None, MapEach(answer, TRUE, 1))

-----------------------------------------------------------------------------
(* The read endpoints called, each with an answer of the server *)

MaxEntries == 2

TS2 == Str(<<"1", "9", "9", "9", "-", "1", "2", "-", "3", "1", "T",
             "2", "3", ":", "5", "9", ":", "5", "9", "Z">>)

\* The lists of at most n elements of S.
RECURSIVE Lists(_, _)
Lists(S, n) ==
    IF n = 0 THEN {<<>>}
    ELSE Lists(S, n - 1) \cup {Append(l, x) : l \in Lists(S, n - 1), x \in S}

\* The answers to GET time: each of the three times there or not, and the
\* zone name.
RECURSIVE TimeMaps(_)
TimeMaps(keys) ==
    IF keys = {} THEN {EmptyMap, "tz_name" :> X}
    ELSE LET key == CHOOSE k \in keys : TRUE
             P == TimeMaps(keys \ {key})
         IN P \cup {update(m, key :> v) : m \in P, v \in {TS, TS2}}

\* The entries of an answer about last visits.
Visits == {Dict(("id" :> Num(1)) @@ ("last_visit_ts" :> TS)),
           Dict(("id" :> Num(2)) @@ ("last_visit_ts" :> TS2)),
           Dict(("id" :> Num(3)))}

\* The comments of an answer.
Comments == {Dict(("text" :> X) @@ ("time" :> TS) @@ ("creation_time" :> TS)),
             Dict(("text" :> Empty) @@ ("time" :> TS2)),
             Dict(("text" :> X))}

\* A bug given as an object, an id or an alias.
BugArgs == {New("Bug", "id" :> Num(5)), Num(5), X}

\* The ids given to the two endpoints of last visits.
VisitArgs == {None, Num(1), List(<<Num(1), Num(2)>>), EmptyList}

\* An endpoint, its argument and the answer of the server to its request.
ReadInputs ==
    {[how |-> "get_time", kind |-> None, attrs |-> Dict(m)] :
        m \in TimeMaps({"db_time", "web_time", "web_time_utc"})}
    \cup
    {[how |-> "get_comments_by_bug", kind |-> b,
      attrs |-> Dict("bugs" :> Dict(str(IF b[1] = "obj" THEN getitem(b, "id") ELSE b)
                                        :> Dict("comments" :> List(l))))] :
        b \in BugArgs, l \in Lists(Comments, MaxEntries)}
    \cup
    {[how |-> h, kind |-> ids, attrs |-> List(l)] :
        h \in {"get_last_visited", "update_last_visited"}, ids \in VisitArgs,
        l \in Lists(Visits, MaxEntries)}

InitRead ==
    /\ input \in ReadInputs
    /\ entity = None
    /\ hist = NoCall
    /\ proxy = LazyUserInit(Loader, Seed)
    /\ pc = <<>>
    /\ rd = <<>>
    /\ loaderCalls = 0
    /\ loaderFails = 0
    /\ reads = 0
    /\ loaded = None
    /\ heap = EmptyMap
    /\ fieldsOf = <<>>
    /\ expected = <<>>
    /\ appends = 0

\* bugzilla.get_time()
GetTime ==
    /\ hist.method = ""
    /\ input.how = "get_time"
    /\ hist' = [method |-> "get_time"] @@ get_time(input.attrs)
    /\ UNCHANGED <<entity, input, lazyVars, heapVars>>

\* bugzilla.get_comments_by_bug(bug)
GetCommentsByBug ==
    /\ hist.method = ""
    /\ input.how = "get_comments_by_bug"
    /\ hist' = [method |-> "get_comments_by_bug"]
                  @@ get_comments_by_bug(input.kind, input.attrs)
    /\ UNCHANGED <<entity, input, lazyVars, heapVars>>

\* bugzilla.get_last_visited(bug_ids)
GetLastVisited ==
    /\ hist.method = ""
    /\ input.how = "get_last_visited"
    /\ hist' = [method |-> "get_last_visited"]
                  @@ get_last_visited(input.kind, input.attrs)
    /\ UNCHANGED <<entity, input, lazyVars, heapVars>>

\* bugzilla.update_last_visited(bug_ids)
UpdateLastVisited ==
    /\ hist.method = ""
    /\ input.how = "update_last_visited"
    /\ hist' = [method |-> "update_last_visited"]
                  @@ update_last_visited(input.kind, input.attrs)
    /\ UNCHANGED <<entity, input, lazyVars, heapVars>>

ReadNext ==
    \/ GetTime
    \/ GetCommentsByBug
    \/ GetLastVisited
    \/ UpdateLastVisited

SpecRead == InitRead /\ [][ReadNext]_vars

-----------------------------------------------------------------------------
(* The earlier package, src/Bugzilla-Python/bugzilla: bugzilla.py decodes    *)
(* with _get_bug, _get_attachment and _get_flag, objects.py encodes with     *)
(* to_json. Its Bug and Attachment have the ATTRIBUTES and the __getitem__   *)
(* of the later package, its Flag the ATTRIBUTES of AttachmentFlag.          *)

\* if key in data: data[key] = func(data[key])
IfIn(data, key, func) ==
    IF IsRaised(data) \/ key \notin DOMAIN data[2] THEN data
    ELSE LET new == Apply(func, data[2][key])
         IN IF IsRaised(new) THEN new ELSE Dict([data[2] EXCEPT ![key] = new])

\* Flag(data)
Flag(data) ==
    IF IsRaised(data) THEN data
    ELSE IF data[1] \notin {"dict", "obj"} THEN Raised("TypeError")
    ELSE Obj("Flag", set_default_attributes(Items(data), AttachmentFlagATTRIBUTES))

\* Bugzilla._get_flag
Earlier_get_flag(data) ==
    IF data[1] # "dict" THEN Raised("TypeError")
    ELSE Flag(IfIn(IfIn(data, "creation_date", "parse_bugzilla_datetime"),
                   "modification_date", "parse_bugzilla_datetime"))

\* if "flags" in data: data["flags"] = [self._get_flag(obj) for obj in data["flags"]]
IfFlags(data) ==
    IF IsRaised(data) \/ "flags" \notin DOMAIN data[2] THEN data
    ELSE LET old == data[2]["flags"]
             new == IF old[1] # "list" THEN Raised("TypeError")
                    ELSE Collect([i \in 1..Len(old[2]) |-> Earlier_get_flag(old[2][i])])
         IN IF IsRaised(new) THEN new ELSE Dict([data[2] EXCEPT !["flags"] = new])

\* Bugzilla._get_attachment
Earlier_get_attachment(data) ==
    Build("Attachment",
        IfFlags(IfIn(IfIn(IfIn(DropSize(
            IfIn(IfIn(IfIn(data, "creation_time", "parse_bugzilla_datetime"),
                      "last_change_time", "parse_bugzilla_datetime"),
                 "data", "b64decode")),
            "is_private", "bool"), "is_obsolete", "bool"), "is_patch", "bool")))

\* Bugzilla._get_bug
Earlier_get_bug(data) ==
    Build("Bug",
        IfIn(IfIn(IfIn(IfIn(IfIn(IfFlags(
            IfIn(data, "creation_time", "parse_bugzilla_datetime")),
            "is_cc_accessible", "bool"), "is_confirmed", "bool"), "is_open", "bool"),
            "is_creator_accessible", "bool"),
            "last_change_time", "parse_bugzilla_datetime"))


RECURSIVE Earlier_to_json(_, _)

\* [x.to_json(id_only) for x in self[field]]: an element that is no entity has
\* no method to_json.
EachToJson(o, field, id_only) ==
    LET l == getitem(o, field)
    IN IF IsRaised(l) THEN l
       ELSE IF l[1] # "list" THEN Raised("TypeError")
       ELSE Collect([i \in 1..Len(l[2]) |->
                        IF l[2][i][1] = "obj" THEN Earlier_to_json(l[2][i], id_only)
                        ELSE Raised("AttributeError")])

\* encode_bugzilla_datetime(self[field])
Encoded(o, field) ==
    LET v == getitem(o, field)
    IN IF IsRaised(v) THEN v ELSE encode_bugzilla_datetime(v)

\* Bug.to_json, Attachment.to_json, Flag.to_json
Earlier_to_json(o, id_only) ==
    LET c == o[2].class
        obj == Dict(o[2].fields)
    IN CASE c = "Bug" ->
              IF id_only THEN getitem(o, "id")
              ELSE Put(Put(Put(Put(Put(Put(Put(Put(obj,
                       "assigned_to", getitem(o, "assigned_to")),
                       "blocks", EachToJson(o, "blocks", TRUE)),
                       "cc", getitem(o, "cc")),
                       "creation_time", Encoded(o, "creation_time")),
                       "creator", getitem(o, "creator")),
                       "flags", EachToJson(o, "flags", FALSE)),
                       "last_change_time", Encoded(o, "last_change_time")),
                       "qa_contact", getitem(o, "qa_contact"))
         [] c = "Attachment" ->
              Put(Put(Put(Put(Put(obj,
                  "size", getitem(o, "size")),
                  "data", LET data == getitem(o, "data")
                          IN IF IsRaised(data) THEN data ELSE b64encode(data)),
                  "creation_time", Encoded(o, "creation_time")),
                  "last_change_time", Encoded(o, "last_change_time")),
                  "flags", EachToJson(o, "flags", FALSE))
         [] c = "Flag" ->
              Put(Put(obj, "creation_date", Encoded(o, "creation_date")),
                  "modification_date", Encoded(o, "modification_date"))
         [] OTHER -> Raised("RuntimeError")

-----------------------------------------------------------------------------
(* The earlier package: a payload decoded, then encoded with to_json *)

MaxEarlier == 2

\* The payloads of a flag.
FlagPayloads == {Dict("name" :> X),
                 Dict(("name" :> X) @@ ("creation_date" :> TS)),
                 Dict(("name" :> X) @@ ("creation_date" :> TS2)
                      @@ ("modification_date" :> TS))}

\* The well-formed wire values of the fields to_json encodes or reads.
EarlierValues(kind, key) ==
    CASE key \in {"creation_time", "last_change_time"} -> {TS, TS2}
      [] key = "flags" -> {List(l) : l \in Lists(FlagPayloads, 1)}
      [] key \in {"blocks", "depends_on"} -> {EmptyList, List(<<Num(5)>>)}
      [] key = "data" -> {Str(b[2]) : b \in Blobs}
      [] key = "size" -> {Num(1)}
      [] key = "is_private" -> {Num(0), Num(1)}
      [] key \in {"assigned_to_detail", "creator_detail"} -> {Named("a")}
      [] key = "cc_detail" -> {List(<<Named("a")>>)}
      [] OTHER -> {X}

EarlierKeys(kind) ==
    {"creation_time", "last_change_time", "flags", "summary"} \cup
    IF kind = "Bug"
    THEN {"blocks", "depends_on", "assigned_to_detail", "creator_detail", "cc_detail"}
    ELSE {"data", "size", "is_private"}

\* The payloads with at most n of these fields.
RECURSIVE EarlierMaps(_, _)
EarlierMaps(kind, n) ==
    IF n = 0 THEN {"id" :> Num(5)}
    ELSE LET P == EarlierMaps(kind, n - 1)
         IN P \cup UNION {{update(m, key :> v) : v \in EarlierValues(kind, key)} :
                            m \in P, key \in EarlierKeys(kind)}

InitEarlier ==
    /\ \E kind \in {"Bug", "Attachment"} :
          input \in {[how |-> "decode", kind |-> kind, attrs |-> Dict(m)] :
                        m \in EarlierMaps(kind, MaxEarlier)}
    /\ entity = None
    /\ hist = NoCall
    /\ proxy = LazyUserInit(Loader, Seed)
    /\ pc = <<>>
    /\ rd = <<>>
    /\ loaderCalls = 0
    /\ loaderFails = 0
    /\ reads = 0
    /\ loaded = None
    /\ heap = EmptyMap
    /\ fieldsOf = <<>>
    /\ expected = <<>>
    /\ appends = 0

\* self._get_bug(data) / self._get_attachment(data)
EarlierDecode ==
    /\ entity = None
    /\ entity' = IF input.kind = "Bug" THEN Earlier_get_bug(input.attrs)
                 ELSE Earlier_get_attachment(input.attrs)
    /\ UNCHANGED <<input, hist, lazyVars, heapVars>>

\* entity.to_json()
ToJson ==
    /\ entity # None
    /\ ~IsRaised(entity)
    /\ hist.method = ""
    /\ hist' = [method |-> "to_json", out |-> Earlier_to_json(entity, FALSE), sent |-> 0]
    /\ UNCHANGED <<entity, input, lazyVars, heapVars>>

EarlierNext ==
    \/ EarlierDecode
    \/ ToJson

SpecEarlier == InitEarlier /\ [][EarlierNext]_vars

-----------------------------------------------------------------------------
(* bugzilla/__init__.py: update_bug with its add, remove and set_ modifiers *)

\* What update_bug returned or raised, the number of requests it sent and the
\* payload of the request.
Sent(out, sent, data) == [out |-> out, sent |-> sent, data |-> data]

\* asr after the four loops: an empty dict for every key of add or remove, the
\* add and the remove list put into it, then {"set": ...} for every key of set_.
Modifiers(add, remove, set_) ==
    [key \in DOMAIN add \cup DOMAIN remove \cup DOMAIN set_ |->
        IF key \in DOMAIN set_ THEN Dict("set" :> set_[key])
        ELSE Dict([m \in {n \in {"add", "remove"} :
                             \/ n = "add" /\ key \in DOMAIN add
                             \/ n = "remove" /\ key \in DOMAIN remove} |->
                      IF m = "add" THEN add[key] ELSE remove[key]])]

Payload_mutKwLast(json, ids, kw, asr) ==
    Dict(update(update(update(json[2], "ids" :> ids), asr), kw))

\* data["ids"] = ids; data.update(kw); data.update(asr)
Payload(json, ids, kw, asr) ==
    Dict(update(update(update(json[2], "ids" :> ids), kw), asr))

\* Bugzilla.update_bug
update_bug(bug, ids, add, remove, set_, kw) ==
    LET given == IF ids = None THEN getitem(bug, "id") ELSE ids
        list == IF IsRaised(given) THEN given
                ELSE IF given[1] \in {"int", "bool"} THEN List(<<given>>)
                ELSE given
        ok == can_be_updated(bug)
        json == update_json(bug)
        path == FirstId(list)
    IN IF IsRaised(list) THEN Sent(list, 0, None)
       ELSE IF (DOMAIN add \cup DOMAIN remove) \cap DOMAIN set_ # {}
       THEN Sent(Raised("ValueError"), 0, None)
       ELSE IF IsRaised(ok) THEN Sent(ok, 0, None)
       ELSE IF ~Truthy(ok) THEN Sent(Raised("BugzillaException"), 0, None)
       ELSE IF IsRaised(json) THEN Sent(json, 0, None)
       ELSE IF IsRaised(path) THEN Sent(path, 0, None)
       ELSE Sent(Answer, 1, Payload(json, list, kw, Modifiers(add, remove, set_)))

-----------------------------------------------------------------------------
(* update_bug called with modifiers and keyword parameters *)

\* The fields the modifiers name: a list field, a field update_json emits, and
\* the key of the ids.
ModifierKeys == {"keywords", "summary", "ids"}

\* The value each parameter gives a key.
ModifierValue(param) == List(<<Str(<<param>>)>>)

\* A parameter that names some of the keys.
ModifierMaps(param, keys) ==
    {[key \in S |-> ModifierValue(param)] : S \in SUBSET keys}

\* The bugs updated: with and without an id.
UpdatedBugs == {Dict("id" :> Num(5)), Dict(("id" :> Num(5)) @@ ("summary" :> X)),
                Dict(EmptyMap)}

InitUpdateBug ==
    /\ input \in {[how |-> "new", kind |-> "Bug", attrs |-> b, ids |-> i,
                   add |-> a, remove |-> r, set_ |-> s, kw |-> k] :
                     b \in UpdatedBugs, i \in {None, Num(7)},
                     a \in ModifierMaps("a", ModifierKeys),
                     r \in ModifierMaps("r", ModifierKeys),
                     s \in ModifierMaps("s", ModifierKeys),
                     k \in ModifierMaps("k", {"keywords", "summary"})}
    /\ entity = None
    /\ hist = [method |-> "", out |-> Unset, sent |-> 0, data |-> None]
    /\ proxy = LazyUserInit(Loader, Seed)
    /\ pc = <<>>
    /\ rd = <<>>
    /\ loaderCalls = 0
    /\ loaderFails = 0
    /\ reads = 0
    /\ loaded = None
    /\ heap = EmptyMap
    /\ fieldsOf = <<>>
    /\ expected = <<>>
    /\ appends = 0

\* Bug(attributes)
BuildBug ==
    /\ entity = None
    /\ entity' = Built(input)
    /\ UNCHANGED <<input, hist, lazyVars, heapVars>>

\* bugzilla.update_bug(bug, ids, add, remove, set_, **kw)
UpdateBug ==
    /\ entity # None
    /\ hist.method = ""
    /\ hist' = [method |-> "update_bug"] @@
               update_bug(entity, input.ids, input.add, input.remove, input.set_,
                          input.kw)
    /\ UNCHANGED <<entity, input, lazyVars, heapVars>>

UpdateBugNext ==
    \/ BuildBug
    \/ UpdateBug

SpecUpdateBug == InitUpdateBug /\ [][UpdateBugNext]_vars

-----------------------------------------------------------------------------
(* bugzilla/objects.py: what a call of add_json, update_json, can_be_added   *)
(* or can_be_updated writes. The methods assign items and append only        *)
(* through local names; the entity changes when such a name is bound to one  *)
(* of its objects.                                                           *)

FrameMethods == {"add_json", "update_json", "can_be_added", "can_be_updated"}

\* The local names a method assigns items to or appends to: dct in every
\* add_json and update_json, the list dct["flags"] and flag_dct in those of
\* Attachment, fields in get_custom_fields of Bug; the predicates have none.
Locals(class, method) ==
    IF method \notin {"add_json", "update_json"} THEN {}
    ELSE {"dct"} \cup (IF class = "Attachment" THEN {"flags", "flag_dct"} ELSE {})
                 \cup (IF class = "Bug" THEN {"fields"} ELSE {})

Bound_mutFlagsShared(class, method, name) ==
    IF class = "Attachment" /\ name = "flags" THEN "flags" ELSE "new"

\* What the name is bound to when the method writes through it: "new" for the
\* dict or list the method made (dct = {}, dct["flags"] = [], flag_dct = {...},
\* fields = {}), else the field of the entity whose value the name was given.
Bound(class, method, name) == "new"

\* The method's result.
Invoked(o, method) ==
    CASE method = "add_json" -> add_json(o)
      [] method = "update_json" -> update_json(o)
      [] method = "can_be_added" -> can_be_added(o)
      [] method = "can_be_updated" -> can_be_updated(o)

\* The entity after the call that gave out: a field whose list a local name was
\* bound to has the elements appended through the name, which are those of the
\* list of the payload.
After(o, method, out) ==
    LET c == o[2].class
        shared == {Bound(c, method, n) : n \in Locals(c, method)} \ {"new"}
    IN IF shared = {} THEN o
       ELSE Obj(c, [key \in DOMAIN o[2].fields |->
                       IF /\ key \in shared
                          /\ o[2].fields[key][1] = "list"
                          /\ out[1] = "dict"
                          /\ key \in DOMAIN out[2]
                       THEN List(o[2].fields[key][2] \o out[2][key][2])
                       ELSE o[2].fields[key]])

-----------------------------------------------------------------------------
(* Entities built, then asked again and again *)

MaxCalls == 2

\* The fields that hold a list, a nested entity or a value the encoders read.
FrameKeys(kind) ==
    {"id"} \cup
    CASE kind = "Bug" -> {"flags", "groups", "keywords", "cc_detail", "deadline", "cf_x"}
      [] kind = "Attachment" -> {"flags", "data"}
      [] kind = "FlagType" -> {"cc_list", "sort_key"}
      [] kind = "Comment" -> {"tags"}
      [] OTHER -> {}

\* Nothing or every required field, and at most one field more.
FrameMaps(how, kind) ==
    {EmptyMap, Ready(kind)} \cup
    UNION {{update(m, key :> v) : v \in SetValues(how, kind, key)} :
              m \in {EmptyMap, Ready(kind)}, key \in FrameKeys(kind)}

NoCalls == [built |-> None, calls |-> 0, seen |-> [m \in FrameMethods |-> {}]]

InitFrame ==
    /\ \E kind \in SentKinds : \E how \in {"new", "decode"} :
          /\ how = "decode" => kind \in {"Bug"}
          /\ input \in {[how |-> how, kind |-> kind, attrs |-> Dict(m)] :
                           m \in FrameMaps(how, kind)}
    /\ entity = None
    /\ hist = NoCalls
    /\ proxy = LazyUserInit(Loader, Seed)
    /\ pc = <<>>
    /\ rd = <<>>
    /\ loaderCalls = 0
    /\ loaderFails = 0
    /\ reads = 0
    /\ loaded = None
    /\ heap = EmptyMap
    /\ fieldsOf = <<>>
    /\ expected = <<>>
    /\ appends = 0

\* K(attributes) or _get_bug(data)
BuildFrame ==
    /\ entity = None
    /\ entity' = Built(input)
    /\ hist' = [hist EXCEPT !.built = Built(input)]
    /\ UNCHANGED <<input, lazyVars, heapVars>>

\* entity.add_json(), entity.update_json(), entity.can_be_added() or
\* entity.can_be_updated()
Invoke(method) ==
    /\ entity # None
    /\ hist.calls < MaxCalls
    /\ LET out == Invoked(entity, method)
       IN /\ entity' = After(entity, method, out)
          /\ hist' = [hist EXCEPT !.calls = @ + 1,
                                  !.seen[method] = @ \cup {out}]
    /\ UNCHANGED <<input, lazyVars, heapVars>>

FrameNext ==
    \/ BuildFrame
    \/ \E method \in FrameMethods : Invoke(method)

SpecFrame == InitFrame /\ [][FrameNext]_vars

-----------------------------------------------------------------------------
(* The lazy proxy: claims *)

\* The loader answered the read with an exception or an object of a wrong kind.
LoadFailed(r) ==
    \/ r.obj[1] = "raise"
    \/ r.obj[1] \notin {"unset", "obj"}
    \/ r.obj[1] = "obj" /\ r.obj[2].class # "User"

\* The loader answered the read with a User.
LoadGaveUser(r) == r.obj[1] = "obj" /\ r.obj[2].class = "User"

\* C1: with one caller, loading enabled and a loader that never fails, the
\* loader is invoked by the first read of an absent field and exactly once in
\* total: no read of a present field and no read after the load invokes it.
C1_LoaderInvokedOnce ==
    /\ loaderFails = 0 => loaderCalls <= 1
    /\ \A t \in Threads : rd[t].done =>
        /\ ~rd[t].absent => loaderCalls = rd[t].calls
        /\ ~rd[t].lazy => loaderCalls = rd[t].calls
        /\ rd[t].lazy /\ rd[t].absent /\ rd[t].enabled => loaderCalls = rd[t].calls + 1

\* A read of a key absent even from the loaded User, after the one load.
C1_Witness ==
    /\ rd[1].done /\ rd[1].key = "nope" /\ rd[1].absent /\ ~rd[1].lazy
    /\ loaderCalls = 1 /\ loaderFails = 0 /\ reads = 3

\* C2: a read that triggered a load answered with a User returns the value the
\* key has in that User.
C2_TriggeringReadReturnsValue ==
    \A t \in Threads :
        (rd[t].done /\ rd[t].triggered /\ LoadGaveUser(rd[t])
            /\ rd[t].key \in DOMAIN rd[t].obj[2].fields)
        => rd[t].out = rd[t].obj[2].fields[rd[t].key]

\* C3: once loaded, the proxy has the class and exactly the fields of the
\* fetched entity, and none of the bookkeeping fields.
C3_LoadedIsTheEntity ==
    (proxy.class # "LazyUser" /\ \A t \in Threads : pc[t] = "idle")
    => /\ loaded[1] = "obj"
       /\ proxy.class = loaded[2].class
       /\ proxy.fields = loaded[2].fields
       /\ DOMAIN proxy.fields \cap Bookkeeping = {}

\* C4: when the loader raises or returns a wrong kind, the read raises (the
\* loader's error, or ValueError), the proxy is as it was before the read, and
\* every later read of an absent field invokes the loader again.
C4_FailedLoadLeavesUnloaded ==
    \A t \in Threads : rd[t].done =>
        /\ LoadFailed(rd[t]) =>
            /\ rd[t].out = (IF rd[t].obj[1] = "raise" THEN rd[t].obj ELSE Raised("ValueError"))
            /\ rd[t].after = rd[t].before
            /\ rd[t].after.class = "LazyUser"
        /\ rd[t].lazy /\ rd[t].absent /\ rd[t].enabled => loaderCalls = rd[t].calls + 1

\* A second failed load: the retry after a failure invoked the loader again.
C4_Witness ==
    /\ rd[1].done /\ LoadFailed(rd[1]) /\ rd[1].obj = New("Bug", EmptyMap)
    /\ loaderFails = 2 /\ loaderCalls = 2

\* C5: with loading disabled, reading an absent field raises KeyError, invokes
\* no loader and leaves the proxy as it was.
C5_DisabledRaisesKeyError ==
    \A t \in Threads :
        (rd[t].done /\ rd[t].lazy /\ rd[t].absent /\ ~rd[t].enabled)
        => /\ rd[t].out = Raised("KeyError")
           /\ ~rd[t].triggered
           /\ loaderCalls = rd[t].calls
           /\ rd[t].after = rd[t].before
           /\ rd[t].after.class = "LazyUser"

C5_Witness ==
    rd[1].done /\ rd[1].lazy /\ rd[1].absent /\ ~rd[1].enabled /\ rd[1].key = "email"

\* C6: with several threads and a loader that never fails, the loader is
\* invoked at most once for the proxy.
C6_AtMostOneLoad == loaderFails = 0 => loaderCalls <= 1

-----------------------------------------------------------------------------
(* Construction and decoding: claims *)

\* C7: a constructed entity holds every attribute of its schema: the given
\* value when the input has the key, the declared default otherwise.
C7_EveryAttributePopulated ==
    entity # None =>
        /\ entity[1] = "obj"
        /\ entity[2].class = input.kind
        /\ \A key \in DOMAIN ATTRIBUTES(input.kind) :
              getitem(entity, key) =
                  IF key \in DOMAIN input.attrs[2] THEN input.attrs[2][key]
                  ELSE ATTRIBUTES(input.kind)[key]

\* An Attachment given an explicit None for data and a custom field.
C7_Witness ==
    /\ entity # None
    /\ input.kind = "Attachment"
    /\ input.attrs = Dict(("data" :> None) @@ ("cf_x" :> X))

\* C8: defaults are copied per instance: after any constructions and appends
\* to a default list of one entity, every entity shows its own values only
\* (the given ones, the defaults, and what was appended to it) and the
\* ATTRIBUTES schema of every class is as declared.
C8_DefaultsNotShared ==
    /\ \A e \in DOMAIN fieldsOf : View(heap, fieldsOf[e].fields) = expected[e]
    /\ \A kind \in HeapKinds : View(heap, SchemaFields(kind)) = ATTRIBUTES(kind)

\* Two Components, flag_types["bug"] of the first appended to, the second at
\* its default.
C8_Witness ==
    /\ Len(fieldsOf) = 2
    /\ fieldsOf[1].kind = "Component"
    /\ fieldsOf[2].kind = "Component"
    /\ expected[1]["flag_types"] = Dict(("bug" :> List(<<Item>>)) @@ ("attachment" :> EmptyList))
    /\ expected[2]["flag_types"] = ComponentATTRIBUTES["flag_types"]
    /\ appends = 1

\* The value the claim expects of a decoded field.
Converted(kind, key, w) ==
    LET t == FieldType(kind, key)
    IN CASE t = "timestamp" -> parse_bugzilla_datetime(w)
         [] t = "date" -> parse_bugzilla_date(w)
         [] t = "blob" -> b64decode(w)
         [] t \in {"intbool", "bool"} -> Bool(Truthy(w))
         [] t = "nested" ->
                List([i \in 1..Len(w[2]) |-> Apply(NestedFields(kind)[key], w[2][i])])
         [] t = "flag_types" ->
                Dict([x \in DOMAIN w[2] |->
                        List([i \in 1..Len(w[2][x][2]) |-> _get_flag_type(w[2][x][2][i])])])
         [] OTHER -> w

\* C9: decoding a payload with a subset S of the declared fields gives an
\* entity whose fields outside S hold the default and whose fields in S hold
\* the converted value: timestamps and dates parsed, 0/1 made booleans, base64
\* decoded, nested objects built.
C9_DecodeConvertsPresentFields ==
    entity # None =>
        /\ entity[1] = "obj"
        /\ entity[2].class = input.kind
        /\ \A key \in DOMAIN ATTRIBUTES(input.kind) :
              getitem(entity, key) =
                  IF key \in DOMAIN input.attrs[2]
                  THEN Converted(input.kind, key, input.attrs[2][key])
                  ELSE ATTRIBUTES(input.kind)[key]

\* C10: reading size gives the length of the current data, however the
\* attachment was built and whatever was assigned to data since; decode keeps
\* no size of the wire.
C10_SizeIsLengthOfData ==
    entity # None =>
        /\ entity[1] = "obj"
        /\ getitem(entity, "size") = Num(Len(hist.data))
        /\ getitem(entity, "data") = Bytes(hist.data)
        /\ input.how = "decode" => "size" \notin DOMAIN entity[2].fields

\* A payload whose size disagrees with its data, and data assigned twice since.
C10_Witness ==
    /\ entity # None
    /\ input.how = "decode"
    /\ input.attrs = Dict(("size" :> Num(5)) @@ ("data" :> Str(<<"Y", "Q", "=", "=">>)))
    /\ hist.steps = 2
    /\ hist.data = <<97, 98>>

-----------------------------------------------------------------------------
(* Virtual fields: claims *)

\* C11: assigning to a virtual field, by attribute or by key, raises an error
\* and leaves every stored field of the entity as it was.
C11_VirtualWriteRejected ==
    (hist.steps > 0 /\ hist.attr \in VirtualFields(input.kind)) =>
        /\ IsRaised(hist.out)
        /\ entity = hist.before

\* size assigned by attribute on an Attachment, after another field was written.
C11_Witness ==
    /\ hist.steps = 2
    /\ input.kind = "Attachment"
    /\ hist.by = "attr"
    /\ hist.attr = "size"
    /\ entity[2].fields["summary"] = X

\* The name of a detail record, None for no record.
NameOf(detail) == IF detail = None THEN None ELSE detail[2]["name"]

\* C12: on every Bug, assigned_to, creator and qa_contact read as the name of
\* their detail record (None without one) and cc as the names of cc_detail in
\* order, whatever entries the bug was built with under those four names.
C12_VirtualReadsDerived ==
    (entity # None /\ input.kind = "Bug") =>
        /\ entity[1] = "obj"
        /\ \A attr \in {"assigned_to", "creator", "qa_contact"} :
              getitem(entity, attr) = NameOf(entity[2].fields[DetailOf[attr]])
        /\ getitem(entity, "cc") =
              LET d == entity[2].fields["cc_detail"][2]
              IN List([i \in 1..Len(d) |-> NameOf(d[i])])

\* A Bug decoded from a payload that carries assigned_to next to its detail.
C12_Witness ==
    /\ entity # None
    /\ input.how = "decode"
    /\ input.kind = "Bug"
    /\ input.attrs = Dict(("assigned_to" :> X) @@ ("assigned_to_detail" :> Named("a")))
    /\ entity[2].fields["assigned_to"] = X

-----------------------------------------------------------------------------
(* Payloads and endpoints: claims *)

\* The classes whose required fields the claim C13 lists.
C13_Kinds == {"Bug", "Attachment", "User", "Group"}

\* C13 as stated: can_be_added() is false when a required field holds its
\* schema default and true otherwise.
C13_FalseIffSomeRequiredDefault ==
    (hist.method = "can_be_added" /\ input.kind \in C13_Kinds) =>
        hist.out = Bool(\A key \in Required(input.kind) :
                            entity[2].fields[key] # ATTRIBUTES(input.kind)[key])

\* C13 amended: can_be_added() is true exactly when no required field holds its
\* default or None (an empty value); a required field that holds its default
\* makes it false.
C13_TrueIffAllRequiredNonEmpty ==
    (hist.method = "can_be_added" /\ input.kind \in C13_Kinds) =>
        hist.out = Bool(\A key \in Required(input.kind) :
                            /\ entity[2].fields[key] # ATTRIBUTES(input.kind)[key]
                            /\ entity[2].fields[key] # None)

\* A Bug with product, component and version set and summary None: asked, it
\* answers False.
C13_Witness ==
    /\ hist.method = "can_be_added"
    /\ input.kind = "Bug"
    /\ input.attrs[2] = update(Ready("Bug"), "summary" :> None)
    /\ hist.out = False

\* C14: an add endpoint called with an entity whose can_be_added() is false,
\* or an update endpoint with one whose can_be_updated() is false, raises an
\* error and sends no request.
C14_InvalidEntityNotSent ==
    /\ (hist.method = "add" /\ can_be_added(entity) = False) =>
          (IsRaised(hist.out) /\ hist.sent = 0)
    /\ (hist.method = "update" /\ can_be_updated(entity) = False) =>
          (IsRaised(hist.out) /\ hist.sent = 0)

\* What a field of a Bug reads as when nothing was given for it.
BugDefault(key) == getitem(New("Bug", EmptyMap), key)

\* C15: the add_json() payload of a Bug whose can_be_added() is true has no
\* entry of a field that holds its default, but for product, component, summary,
\* version and the custom fields.
C15_AddPayloadOmitsDefaults ==
    (/\ hist.method = "add_json"
     /\ input.kind = "Bug"
     /\ can_be_added(entity) = True
     /\ hist.out[1] = "dict") =>
        \A key \in DOMAIN hist.out[2] :
            \/ key \in Required("Bug")
            \/ startswith_cf(key)
            \/ getitem(entity, key) # BugDefault(key)

\* C16: the non-custom fields of an update_json() payload are those of the
\* payload of the entity built from nothing, whatever the entity holds.
C16_UpdatePayloadFieldsFixed ==
    (hist.method = "update_json" /\ hist.out[1] = "dict") =>
        {key \in DOMAIN hist.out[2] : ~startswith_cf(key)} =
            DOMAIN update_json(New(input.kind, EmptyMap))[2]

\* C17: the add_json() and update_json() payloads of a decoded Bug hold every
\* custom field of the payload it was decoded from, with that value, and no
\* other custom field.
C17_CustomFieldsRoundTrip ==
    (/\ hist.method \in {"add_json", "update_json"}
     /\ input.kind = "Bug"
     /\ input.how = "decode") =>
        /\ \A key \in DOMAIN input.attrs[2] :
              startswith_cf(key) =>
                  /\ hist.out[1] = "dict"
                  /\ key \in DOMAIN hist.out[2]
                  /\ hist.out[2][key] = input.attrs[2][key]
        /\ hist.out[1] = "dict" =>
              \A key \in DOMAIN hist.out[2] :
                  startswith_cf(key) => key \in DOMAIN input.attrs[2]

\* The fields add_attachment documents as required.
C20_Fields == {"data", "file_name", "summary", "content_type"}

\* C20: add_attachment raises and sends no request when data, file_name,
\* summary or content_type holds its default.
C20_AttachmentNeedsFourFields ==
    (/\ hist.method = "add"
     /\ input.kind = "Attachment"
     /\ \E key \in C20_Fields : entity[2].fields[key] = AttachmentATTRIBUTES[key]) =>
        (IsRaised(hist.out) /\ hist.sent = 0)

-----------------------------------------------------------------------------
(* Requests and the codec: claims *)

\* The JSON values of a body: one, or none for a text that is no JSON.
Decoded(body) ==
    IF \E j \in JsonTexts : j[1] = body[2]
    THEN {j[2] : j \in {k \in JsonTexts : k[1] = body[2]}}
    ELSE {}

ErrorFlagged(v) == v[1] = "dict" /\ "error" \in DOMAIN v[2] /\ v[2]["error"] = True

\* C18: a body that is a JSON object with the error flag set raises
\* BugzillaException with the body's code and message, whatever the HTTP
\* status; a non-success answer whose body is no JSON raises the HTTP error;
\* any other decoded body is returned as it is.
C18_ErrorEnvelopeRaised ==
    hist.steps > 0 =>
        /\ \A v \in Decoded(hist.body) :
              IF ErrorFlagged(v)
              THEN /\ hist.out = Raised("BugzillaException")
                   /\ hist.args = <<v[2]["code"], v[2]["message"]>>
              ELSE hist.out = v
        /\ (Decoded(hist.body) = {} /\ hist.status >= 400) =>
              hist.out = Raised("HTTPError")

\* The error envelope answered with a status of failure.
C18_Witness ==
    /\ hist.steps > 0
    /\ hist.status = 400
    /\ hist.body = Body("{\"error\":true,\"code\":51,\"message\":\"m\"}")
    /\ hist.args = <<Num(51), Str(<<"m">>)>>

-----------------------------------------------------------------------------
(* Payloads of every kind: claims *)

\* The field of the entity an entry of the add_json() payload is read from.
FieldOf(kind, key) ==
    CASE kind = "Component" /\ key = "default_assignee" -> "default_assigned_to"
      [] kind = "FlagType" /\ key = "sortkey" -> "sort_key"
      [] kind = "Comment" /\ key = "comment" -> "text"
      [] kind = "Comment" /\ key = "comment_tags" -> "tags"
      [] kind = "User" /\ key = "full_name" -> "real_name"
      [] OTHER -> key

\* C21: for each of the eight kinds that can be created, the add_json() payload
\* has no entry read from a field that holds the kind's default, but for the
\* fields can_be_added() requires (and the custom fields of a Bug).
C21_AddPayloadOmitsDefaultsEveryKind ==
    (hist.method = "add_json" /\ hist.out[1] = "dict") =>
        \A key \in DOMAIN hist.out[2] :
            \/ FieldOf(input.kind, key) \in Required(input.kind)
            \/ startswith_cf(key)
            \/ getitem(entity, FieldOf(input.kind, key)) #
                   getitem(New(input.kind, EmptyMap), FieldOf(input.kind, key))

-----------------------------------------------------------------------------
(* The read endpoints: claims *)

\* C22: get_comments_by_bug, given a Bug, an id or an alias, sends one request
\* and returns the decoded Comment of every comment of the answer, in the
\* order of the answer.
C22_CommentsDecodedInOrder ==
    hist.method = "get_comments_by_bug" =>
        LET listed == input.attrs[2].bugs[2][str(IF input.kind[1] = "obj"
                                                  THEN getitem(input.kind, "id")
                                                  ELSE input.kind)][2].comments[2]
        IN /\ hist.sent = 1
           /\ hist.out = List([i \in 1..Len(listed) |-> _get_comment(listed[i])])

\* The three times of the answer to GET time.
C23_Times == {"db_time", "web_time", "web_time_utc"}

\* C23: get_time returns a dict with the keys of the answer; each of db_time,
\* web_time and web_time_utc that the answer has is the timestamp its text
\* denotes, none is added, and every other entry is that of the answer.
C23_TimeRecordConverted ==
    hist.method = "get_time" =>
        /\ hist.sent = 1
        /\ hist.out[1] = "dict"
        /\ DOMAIN hist.out[2] = DOMAIN input.attrs[2]
        /\ \A key \in DOMAIN hist.out[2] :
              IF key \in C23_Times
              THEN /\ hist.out[2][key][1] = "datetime"
                   /\ hist.out[2][key] = parse_bugzilla_datetime(input.attrs[2][key])
              ELSE hist.out[2][key] = input.attrs[2][key]

\* get_time called on an answer with web_time_utc and the zone name but no
\* db_time: web_time_utc comes back as a timestamp, db_time is not there.
C23_Witness ==
    /\ hist.method = "get_time"
    /\ DOMAIN input.attrs[2] = {"web_time_utc", "tz_name"}
    /\ hist.out[1] = "dict"
    /\ hist.out[2]["web_time_utc"] = DateTime(<<1999, 12, 31, 23, 59, 59>>)
    /\ "db_time" \notin DOMAIN hist.out[2]

\* C29: every entry of the list get_last_visited returns has its last_visit_ts
\* as the timestamp the wire text denotes, as the entry update_last_visited
\* returns for the same answer has.
C29_LastVisitedConverted ==
    (hist.method = "get_last_visited" /\ ~IsRaised(hist.out)) =>
        /\ hist.out[1] = "list"
        /\ Len(hist.out[2]) = Len(input.attrs[2])
        /\ \A i \in 1..Len(hist.out[2]) :
              "last_visit_ts" \in DOMAIN input.attrs[2][i][2] =>
                  /\ hist.out[2][i][2]["last_visit_ts"] =
                        parse_bugzilla_datetime(input.attrs[2][i][2]["last_visit_ts"])
                  /\ hist.out[2][i] =
                        update_last_visited(input.kind, input.attrs).out[2][i]

-----------------------------------------------------------------------------
(* The earlier package: claims *)

\* The timestamp fields of a payload of the earlier package.
C24_Stamps(kind) ==
    IF kind = "Flag" THEN {"creation_date", "modification_date"}
    ELSE {"creation_time", "last_change_time"}

\* to_json gave, for every timestamp field of the payload, the text of the
\* payload.
C24_Same(kind, payload, json) ==
    /\ json[1] = "dict"
    /\ \A key \in C24_Stamps(kind) \cap DOMAIN payload[2] :
          key \in DOMAIN json[2] /\ json[2][key] = payload[2][key]

\* C24: to_json() of a Bug or an Attachment decoded by the earlier package
\* completes and gives creation_time, last_change_time, the creation_date and
\* modification_date of every flag, and the data of an attachment as the text
\* the payload had.
C24_ToJsonReproducesPayload ==
    hist.method = "to_json" =>
        /\ C24_Same(input.kind, input.attrs, hist.out)
        /\ "flags" \in DOMAIN input.attrs[2] =>
              /\ hist.out[2]["flags"][1] = "list"
              /\ Len(hist.out[2]["flags"][2]) = Len(input.attrs[2]["flags"][2])
              /\ \A i \in 1..Len(input.attrs[2]["flags"][2]) :
                    C24_Same("Flag", input.attrs[2]["flags"][2][i],
                             hist.out[2]["flags"][2][i])
        /\ (input.kind = "Attachment" /\ "data" \in DOMAIN input.attrs[2]) =>
              hist.out[2]["data"] = input.attrs[2]["data"]

-----------------------------------------------------------------------------
(* update_bug: claims *)

\* The keys the modifiers of the call name.
C25_Named == DOMAIN input.add \cup DOMAIN input.remove \cup DOMAIN input.set_

\* C25: a call whose set_ names a key that add or remove names raises
\* ValueError and sends nothing; in the payload of a request no entry has a set
\* together with an add or a remove, a key of add and remove has one entry with
\* both lists, and the entry of every key the modifiers name is the modifier
\* entry, whatever the keyword parameters and update_json give for the key.
C25_ModifiersExclusive ==
    hist.method = "update_bug" =>
        /\ (DOMAIN input.add \cup DOMAIN input.remove) \cap DOMAIN input.set_ # {} =>
              (hist.out = Raised("ValueError") /\ hist.sent = 0)
        /\ hist.sent = 1 =>
              /\ hist.data[1] = "dict"
              /\ C25_Named \subseteq DOMAIN hist.data[2]
              /\ \A key \in C25_Named :
                    LET entry == hist.data[2][key]
                    IN /\ entry[1] = "dict"
                       /\ ~("set" \in DOMAIN entry[2]
                            /\ DOMAIN entry[2] \cap {"add", "remove"} # {})
                       /\ DOMAIN entry[2] =
                             {m \in {"add", "remove", "set"} :
                                 \/ m = "add" /\ key \in DOMAIN input.add
                                 \/ m = "remove" /\ key \in DOMAIN input.remove
                                 \/ m = "set" /\ key \in DOMAIN input.set_}
                       /\ key \in DOMAIN input.add => entry[2]["add"] = input.add[key]
                       /\ key \in DOMAIN input.remove =>
                             entry[2]["remove"] = input.remove[key]
                       /\ key \in DOMAIN input.set_ => entry[2]["set"] = input.set_[key]

\* update_bug called with keywords in add, in remove and among the keyword
\* parameters, and summary in set_: the request is sent, keywords has both
\* lists and summary the set.
C25_Witness ==
    /\ hist.method = "update_bug"
    /\ hist.sent = 1
    /\ "keywords" \in DOMAIN input.add \cap DOMAIN input.remove \cap DOMAIN input.kw
    /\ DOMAIN input.set_ = {"summary"}
    /\ DOMAIN hist.data[2]["keywords"][2] = {"add", "remove"}
    /\ hist.data[2]["summary"] = Dict("set" :> ModifierValue("s"))

-----------------------------------------------------------------------------
(* The predicates and the payloads of decoded bugs: claims *)

\* C26: can_be_added() and can_be_updated() of an entity built from attributes
\* of its schema return True or False.
C26_PredicatesReturnBoolean ==
    (/\ hist.method \in {"can_be_added", "can_be_updated"}
     /\ input.how = "new"
     /\ DOMAIN input.attrs[2] \subseteq DOMAIN ATTRIBUTES(input.kind)) =>
        hist.out \in {True, False}

\* C27: update_json() of a Bug decoded from a payload with an id returns a
\* payload whose deadline is the date text of the decoded payload, None when
\* that had no deadline.
C27_DecodedDeadlineRoundTrip ==
    (/\ hist.method = "update_json"
     /\ input.kind = "Bug"
     /\ input.how = "decode"
     /\ "id" \in DOMAIN input.attrs[2]) =>
        /\ hist.out[1] = "dict"
        /\ hist.out[2]["deadline"] =
              IF "deadline" \in DOMAIN input.attrs[2] THEN input.attrs[2]["deadline"]
              ELSE None

\* C28: add_json() of a Bug whose can_be_added() is true and whose flags are a
\* non-empty list of AttachmentFlag entities returns a payload whose flags
\* entry has one element for each flag.
C28_BugFlagsEncoded ==
    (/\ hist.method = "add_json"
     /\ input.kind = "Bug"
     /\ can_be_added(entity) = True
     /\ entity[2].fields["flags"][1] = "list"
     /\ entity[2].fields["flags"][2] # <<>>
     /\ \A i \in 1..Len(entity[2].fields["flags"][2]) :
           /\ entity[2].fields["flags"][2][i][1] = "obj"
           /\ entity[2].fields["flags"][2][i][2].class = "AttachmentFlag") =>
        /\ hist.out[1] = "dict"
        /\ hist.out[2]["flags"][1] = "list"
        /\ Len(hist.out[2]["flags"][2]) = Len(entity[2].fields["flags"][2])

-----------------------------------------------------------------------------
(* Read-only projections: claims *)

====
